---- MODULE Spec2Model ----
(***************************************************************************)
(* A model of the RIR bytecode compiler (ir/Compiler.cpp) and of the RIR   *)
(* bytecode interpreter (interpreter/interp.c).                            *)
(*                                                                         *)
(* The heap is a sequence of SEXP records, an SEXP pointer is an index     *)
(* into it.  The C call stack of the interpreter is the sequence cstack of *)
(* activation records; the R context chain is threaded through the RAWSXP  *)
(* context stores exactly as the C code threads it through RCNTXT.         *)
(***************************************************************************)
EXTENDS Integers, Sequences, FiniteSets, TLC

VARIABLES
    heap,            \* the R heap: Seq of SEXP records
    funs,            \* the Function objects produced by the compiler
    ostack,          \* ctx->ostack, the interpreter's value stack
    cstack,          \* the C stack: nested activations of the interpreter
    retval,          \* the C return value travelling to the caller (0: none)
    jmp,             \* a longjmp in flight: the value SETJMP returns (0: none)
    R_GlobalContext, \* heap address of the innermost context store (0: toplevel)
    R_Visible,       \* the process-wide visibility flag
    R_ReturnedValue, \* value carried by a non-local transfer
    status,          \* "run", "done", "error", "bug" (assertion failure)
    errmsg,          \* message of the last error() / failed assertion
    warnings,        \* messages given to warningcall, in order
    trace,           \* history: the events of the run, in order
    last,            \* history: the instruction or step executed last
    steps            \* number of steps taken (bounded by MaxSteps)

vars == <<heap, funs, ostack, cstack, retval, jmp, R_GlobalContext, R_Visible,
          R_ReturnedValue, status, errmsg, warnings, trace, last, steps>>

(***************************************************************************)
(* Bounds of the model.                                                    *)
(***************************************************************************)
MaxSteps == 90

(***************************************************************************)
(* Program constants.                                                      *)
(***************************************************************************)
\* INT_MIN
NA_LOGICAL == -2147483647 - 1
CTXT_NEXT == 1
CTXT_BREAK == 2
CTXT_LOOP == 3
CTXT_FUNCTION == 4
CTXT_RETURN == 12
CTXT_RESTART == 32
DOTS_ARG_IDX == -2
MISSING_ARG_IDX == -1

(***************************************************************************)
(* SEXP records.  v is the payload of a vector (integers for LGLSXP,       *)
(* INTSXP and REALSXP, strings for STRSXP); x is the payload of the other  *)
(* node kinds (promise, environment, closure, builtin, context store).     *)
(***************************************************************************)
mkSEXP(type, v, x) ==
    [type |-> type, named |-> 0, obj |-> FALSE, s4 |-> FALSE, v |-> v, x |-> x]

mkVec(type, v) == mkSEXP(type, v, <<>>)

mkObj(type, v, isS4, class) ==
    [type |-> type, named |-> 0, obj |-> TRUE, s4 |-> isS4, v |-> v,
     x |-> [class |-> class]]

mkPrim(type, name) == mkSEXP(type, <<>>, [name |-> name])

mkEnv(frame, parent) == mkSEXP("ENVSXP", <<>>, [frame |-> frame, parent |-> parent])

mkClosure(formals, body, env) ==
    mkSEXP("CLOSXP", <<>>,
           [formals |-> formals, body |-> body, cloenv |-> env, compiled |-> 0])

(***************************************************************************)
(* ASTs.  R_MissingArg is the symbol with the empty name.                  *)
(***************************************************************************)
Sym(s) == [t |-> "SYMSXP", s |-> s]
Const(a) == [t |-> "CONST", a |-> a]
Arg(e) == [tag |-> "", val |-> e]
Lang(f, args) == [t |-> "LANGSXP", fun |-> f, args |-> args]
Call0(f) == Lang(Sym(f), <<>>)
Call1(f, a) == Lang(Sym(f), <<Arg(a)>>)
Call2(f, a, b) == Lang(Sym(f), <<Arg(a), Arg(b)>>)
Call3(f, a, b, c) == Lang(Sym(f), <<Arg(a), Arg(b), Arg(c)>>)
Str(s) == [t |-> "STRSXP", s |-> s]
NoAst == [t |-> "NONE"]

R_DotsSymbol == Sym("...")
getterPlaceholder == Sym("*getter*")
setterPlaceholder == Sym("*setter*")
MissingArgSym == Sym("")

IsSym(e, s) == e.t = "SYMSXP" /\ e.s = s
DDVAL(e) == e.t = "SYMSXP" /\ e.s \in {"..1", "..2"}

(***************************************************************************)
(* The code stream builder: instructions, labels and their patch points.   *)
(* A branch carries its label until finalize turns it into an offset       *)
(* relative to the instruction after the branch.                           *)
(***************************************************************************)
I(op, imm) == [op |-> op, imm |-> imm, ast |-> NoAst]

IsBranchOp(op) == op \in {"br_", "brtrue_", "brfalse_", "brobj_", "beginloop_"}

NewCodeContext(ast) ==
    [cs |-> [code |-> <<>>, lpos |-> <<>>], loops |-> <<>>, ast |-> ast]

NewContext == [fun |-> <<>>, code |-> <<>>, consts |-> {}]

Top(ctx) == ctx.code[Len(ctx.code)]

Emit(ctx, ins) == [ctx EXCEPT !.code[Len(ctx.code)].cs.code = Append(@, ins)]

AddAst(ctx, ast) ==
    [ctx EXCEPT !.code[Len(ctx.code)].cs.code[Len(Top(ctx).cs.code)].ast = ast]

MkLabel(ctx) == [ctx EXCEPT !.code[Len(ctx.code)].cs.lpos = Append(@, 0)]

NewLabel(ctx) == Len(Top(ctx).cs.lpos)

BindLabel(ctx, l) ==
    [ctx EXCEPT !.code[Len(ctx.code)].cs.lpos[l] = Len(Top(ctx).cs.code) + 1]

finalizeCode(cc) ==
    [code |-> [i \in 1..Len(cc.cs.code) |->
                  IF IsBranchOp(cc.cs.code[i].op)
                  THEN [cc.cs.code[i] EXCEPT !.imm = cc.cs.lpos[@] - (i + 1)]
                  ELSE cc.cs.code[i]],
     src |-> cc.ast]

(***************************************************************************)
(* Compiler.cpp: class Context.                                            *)
(***************************************************************************)
\* A compiler that never takes a call for one inside a loop.
inLoop_never(ctx) == FALSE

inLoop(ctx) == Len(Top(ctx).loops) > 0

loop(ctx) == Top(ctx).loops[Len(Top(ctx).loops)]

pushLoop(ctx, next_, break_) ==
    [ctx EXCEPT !.code[Len(ctx.code)].loops =
        Append(@, [next_ |-> next_, break_ |-> break_])]

popLoop(ctx) ==
    [ctx EXCEPT !.code[Len(ctx.code)].loops = SubSeq(@, 1, Len(@) - 1)]

ctxPush(ctx, ast) == [ctx EXCEPT !.code = Append(@, NewCodeContext(ast))]

\* Context::pop: finalize the top code stream into the function; the index
\* of the new code object is Len(.fun) of the result.
ctxPop(ctx) ==
    [ctx EXCEPT !.fun = Append(@, finalizeCode(Top(ctx))),
                !.code = SubSeq(@, 1, Len(@) - 1)]

(***************************************************************************)
(* Compiler.cpp: the lowering of expressions.                              *)
(***************************************************************************)
RECURSIVE compileExpr(_, _)
RECURSIVE compileCall(_, _, _, _)
RECURSIVE compileSpecialCall(_, _, _, _)
RECURSIVE compilePromise(_, _)
RECURSIVE compileArgs(_, _, _, _)
RECURSIVE validAssignTarget(_)
RECURSIVE lhsParts(_)
RECURSIVE compileStackArgs(_, _, _, _)
RECURSIVE compileGetters(_, _, _)
RECURSIVE compileSetters(_, _, _)

\* An argument loop that drops the names of the arguments.
promiseArg_notag(c1, args, i, acc) ==
    compileArgs(c1, args, i + 1,
                [callArgs |-> Append(acc.callArgs, Len(c1.fun)),
                 names |-> Append(acc.names, "")])

\* The promise compiled for args[i] is the last code object of c1.
promiseArg(c1, args, i, acc) ==
    compileArgs(c1, args, i + 1,
                [callArgs |-> Append(acc.callArgs, Len(c1.fun)),
                 names |-> Append(acc.names, args[i].tag)])

\* The argument loop shared by compileCall and compileDispatch: one entry
\* of callArgs and of names per source argument, in source order.
compileArgs(ctx, args, i, acc) ==
    IF i > Len(args) THEN [ctx |-> ctx, callArgs |-> acc.callArgs, names |-> acc.names]
    ELSE IF IsSym(args[i].val, "...")
    THEN compileArgs(ctx, args, i + 1,
                     [callArgs |-> Append(acc.callArgs, DOTS_ARG_IDX),
                      names |-> Append(acc.names, "")])
    ELSE IF IsSym(args[i].val, "")
    THEN compileArgs(ctx, args, i + 1,
                     [callArgs |-> Append(acc.callArgs, MISSING_ARG_IDX),
                      names |-> Append(acc.names, "")])
    ELSE promiseArg(compilePromise(ctx, args[i].val), args, i, acc)

dispatchIns(r, selector, ast) ==
    AddAst(Emit(r.ctx, I("dispatch_", [selector |-> selector.s,
                                       args |-> r.callArgs,
                                       names |-> r.names])), ast)

compileDispatch(ctx, selector, ast, fun, args) ==
    dispatchIns(compileArgs(ctx, args, 1, [callArgs |-> <<>>, names |-> <<>>]),
                selector, ast)

\* "Verify lhs is valid": the loop over the target of an assignment.
validAssignTarget(l) ==
    CASE l.t = "LANGSXP" ->
           IF l.fun.t = "SYMSXP"
           THEN (IF Len(l.args) = 0 THEN FALSE ELSE validAssignTarget(l.args[1].val))
           ELSE FALSE
      [] l.t = "SYMSXP" -> TRUE
      [] l.t = "STRSXP" -> TRUE
      [] OTHER -> FALSE

\* A check of the target placed after the guard of the inlined form.
invalidTarget_emitted(ctx, fun) ==
    [ok |-> FALSE, ctx |-> Emit(ctx, I("isspecial_", fun.s))]

\* "return false" out of the loop that verifies the target: the code
\* stream is as the caller left it.
invalidTarget(ctx, fun) == [ok |-> FALSE, ctx |-> ctx]

compileAnd(ctx, fun, args) ==
    LET c1 == Emit(ctx, I("isspecial_", fun.s))
        c2 == MkLabel(c1)
        nextBranch == NewLabel(c2)
        c3 == compileExpr(c2, args[1].val)
        c4 == AddAst(Emit(c3, I("aslogical_", 0)), args[1].val)
        c5 == Emit(Emit(c4, I("dup_", 0)), I("brfalse_", nextBranch))
        c6 == compileExpr(c5, args[2].val)
        c7 == AddAst(Emit(c6, I("aslogical_", 0)), args[2].val)
        c8 == Emit(c7, I("lgl_and_", 0))
    IN BindLabel(c8, nextBranch)

compileOr(ctx, fun, args) ==
    LET c1 == Emit(ctx, I("isspecial_", fun.s))
        c2 == MkLabel(c1)
        nextBranch == NewLabel(c2)
        c3 == compileExpr(c2, args[1].val)
        c4 == AddAst(Emit(c3, I("aslogical_", 0)), args[1].val)
        c5 == Emit(Emit(c4, I("dup_", 0)), I("brtrue_", nextBranch))
        c6 == compileExpr(c5, args[2].val)
        c7 == AddAst(Emit(c6, I("aslogical_", 0)), args[2].val)
        c8 == Emit(c7, I("lgl_or_", 0))
    IN BindLabel(c8, nextBranch)

\* An assignment that does not keep a copy of the value for its result.
compileAssignSym_nodup(ctx, fun, lhs, rhs) ==
    LET c1 == Emit(ctx, I("isspecial_", fun.s))
        c2 == compileExpr(c1, rhs)
    IN Emit(Emit(c2, I("stvar_", lhs.s)), I("invisible_", 0))

compileAssignSym(ctx, fun, lhs, rhs) ==
    LET c1 == Emit(ctx, I("isspecial_", fun.s))
        c2 == compileExpr(c1, rhs)
    IN Emit(Emit(Emit(c2, I("dup_", 0)), I("stvar_", lhs.s)), I("invisible_", 0))

\* "Find all parts of the lhs": the target call, the calls nested in its
\* first arguments, and last the target symbol (a string is installed as a
\* symbol).
lhsParts(l) ==
    CASE l.t = "LANGSXP" -> <<l>> \o lhsParts(l.args[1].val)
      [] l.t = "SYMSXP" -> <<l>>
      [] OTHER -> <<Sym(l.s)>>

\* push the promise that was compiled last
promiseIns(c1) == Emit(c1, I("promise_", Len(c1.fun)))

\* The arguments of a getter or setter after the first: r is [names, nargs]
\* on the way, [ctx, names, nargs] as the result.  A symbol or a call becomes a promise on the stack, anything
\* else is compiled in line; `...` and the missing argument are pushed as
\* the symbols they are (the cells 8 and 6 of the heap).
compileStackArgs(ctx, args, j, r) ==
    IF j > Len(args) THEN [ctx |-> ctx, names |-> r.names, nargs |-> r.nargs]
    ELSE LET arg == args[j].val
             more == [r EXCEPT !.nargs = @ + 1]
         IN IF IsSym(arg, "...") \/ IsSym(arg, "")
            THEN compileStackArgs(Emit(ctx, I("push_", IF IsSym(arg, "...") THEN 8 ELSE 6)),
                                  args, j + 1,
                                  [more EXCEPT !.names = Append(@, "")])
            ELSE IF arg.t \in {"LANGSXP", "SYMSXP"}
            THEN compileStackArgs(promiseIns(compilePromise(ctx, arg)), args, j + 1,
                                  [more EXCEPT !.names = Append(@, args[j].tag)])
            ELSE compileStackArgs(compileExpr(ctx, arg), args, j + 1,
                                  [more EXCEPT !.names = Append(@, args[j].tag)])

\* emit `ins` only when `cond` holds
EmitIf(cond, ctx, ins) == IF cond THEN Emit(ctx, ins) ELSE ctx

\* The call_stack_ of a getter: r is the result of compileStackArgs, ast
\* the call with the placeholder as its first argument.
getterCall(r, ast) ==
    AddAst(Emit(r.ctx, I("call_stack_", [nargs |-> Len(r.names), names |-> r.names])),
           ast)

\* The call_stack_ of a setter: the value is picked over the arguments and
\* passed last under the name `value`.
setterCall(r, ast) ==
    AddAst(Emit(EmitIf(r.nargs > 0, r.ctx, I("pick_", r.nargs)),
                I("call_stack_", [nargs |-> Len(r.names) + 1,
                                  names |-> Append(r.names, "value")])),
           ast)

\* "Evaluate the getter list and push it to the stack in reverse order":
\* parts[i + 1] is lhsParts[i] of the code, i runs down to 1.
compileGetters(ctx, parts, i) ==
    IF i = 0 THEN ctx
    ELSE IF parts[i + 1].t = "SYMSXP"
    THEN compileGetters(
             EmitIf(i > 1,
                    Emit(EmitIf(i > 1, Emit(ctx, I("ldvar_", parts[i + 1].s)),
                                I("dup_", 0)),
                         I("uniq_", 0)),
                    I("swap_", 0)),
             parts, i - 1)
    ELSE compileGetters(
             EmitIf(i > 1,
                    Emit(EmitIf(i > 1,
                                getterCall(
                                    compileStackArgs(
                                        Emit(Emit(ctx, I("ldfun_", parts[i + 1].fun.s)),
                                             I("swap_", 0)),
                                        parts[i + 1].args, 2,
                                        [names |-> <<"">>, nargs |-> 0]),
                                    [parts[i + 1] EXCEPT !.args[1].val = getterPlaceholder]),
                                I("dup_", 0)),
                         I("uniq_", 0)),
                    I("swap_", 0)),
             parts, i - 1)

setterName(g) == g.fun.s \o "<-"

\* "Run the setters": parts[k + 1] is *g, k runs up to size - 2.
compileSetters(ctx, parts, k) ==
    IF k + 1 >= Len(parts) THEN ctx
    ELSE compileSetters(
             Emit(setterCall(
                      compileStackArgs(
                          Emit(Emit(ctx, I("ldfun_", setterName(parts[k + 1]))),
                               I("put_", 2)),
                          parts[k + 1].args, 2, [names |-> <<"">>, nargs |-> 0]),
                      Lang(Sym(setterName(parts[k + 1])),
                           Append([parts[k + 1].args EXCEPT ![1].val = setterPlaceholder],
                                  [tag |-> "value", val |-> setterPlaceholder]))),
                  I("uniq_", 0)),
             parts, k + 1)

\* An assignment that leaves the value of the right hand side below the
\* intermediate targets.
compileAssignComplex_nopick(ctx, fun, lhs, rhs) ==
    LET c1 == Emit(ctx, I("isspecial_", fun.s))
        c2 == Emit(compileExpr(c1, rhs), I("dup_", 0))
        parts == lhsParts(lhs)
        target == parts[Len(parts)]
        c3 == compileGetters(c2, parts, Len(parts) - 1)
        c5 == compileSetters(c3, parts, 0)
    IN Emit(Emit(c5, I("stvar_", target.s)), I("invisible_", 0))

\* An assignment that leaves the visibility flag alone.
compileAssignComplex_visible(ctx, fun, lhs, rhs) ==
    LET c1 == Emit(ctx, I("isspecial_", fun.s))
        c2 == Emit(compileExpr(c1, rhs), I("dup_", 0))
        parts == lhsParts(lhs)
        target == parts[Len(parts)]
        c3 == compileGetters(c2, parts, Len(parts) - 1)
        c4 == Emit(c3, I("pick_", Len(parts) - 1))
        c5 == compileSetters(c4, parts, 0)
    IN Emit(c5, I("stvar_", target.s))

\* An assignment to a call or to a string.
compileAssignComplex(ctx, fun, lhs, rhs) ==
    LET c1 == Emit(ctx, I("isspecial_", fun.s))
        c2 == Emit(compileExpr(c1, rhs), I("dup_", 0))
        parts == lhsParts(lhs)
        target == parts[Len(parts)]
        c3 == compileGetters(c2, parts, Len(parts) - 1)
        c4 == Emit(c3, I("pick_", Len(parts) - 1))
        c5 == compileSetters(c4, parts, 0)
    IN Emit(Emit(c5, I("stvar_", target.s)), I("invisible_", 0))

\* is.null, is.list, is.pairlist
compileIs(ctx, fun, args, tag) ==
    Emit(compileExpr(Emit(ctx, I("isspecial_", fun.s)), args[1].val), I("is_", tag))

compileBracket(ctx, ast, fun, args) ==
    LET c1 == MkLabel(ctx)
        objBranch == NewLabel(c1)
        c2 == MkLabel(c1)
        nextBranch == NewLabel(c2)
        c3 == Emit(c2, I("isspecial_", fun.s))
        c4 == compileExpr(c3, args[1].val)
        c5 == Emit(c4, I("brobj_", objBranch))
        c6 == compileExpr(c5, args[2].val)
        c7 == Emit(c6, I(IF fun.s = "[[" THEN "extract1_" ELSE "subset1_", 0))
        c8 == Emit(AddAst(c7, ast), I("br_", nextBranch))
        c9 == BindLabel(c8, objBranch)
        c10 == compileDispatch(c9, fun, ast, fun, args)
    IN BindLabel(c10, nextBranch)

\* quote(x): the code object compiled for x, pushed as a value.
compileQuote(ctx, fun, args) ==
    LET c1 == compilePromise(ctx, args[1].val)
    IN Emit(Emit(c1, I("isspecial_", fun.s)), I("push_code_", Len(c1.fun)))

compileWhile(ctx, fun, args) ==
    LET c1 == Emit(ctx, I("isspecial_", fun.s))
        c2 == MkLabel(c1)
        loopBranch == NewLabel(c2)
        c3 == MkLabel(c2)
        nextBranch == NewLabel(c3)
        c4 == pushLoop(c3, loopBranch, nextBranch)
        c5 == BindLabel(Emit(c4, I("beginloop_", nextBranch)), loopBranch)
        c6 == compileExpr(c5, args[1].val)
        c7 == Emit(Emit(c6, I("asbool_", 0)), I("brfalse_", nextBranch))
        c8 == compileExpr(c7, args[2].val)
        c9 == Emit(Emit(c8, I("pop_", 0)), I("br_", loopBranch))
        c10 == Emit(Emit(Emit(BindLabel(c9, nextBranch), I("endcontext_", 0)),
                         I("push_", 1)), I("invisible_", 0))
    IN popLoop(c10)

compileRepeat(ctx, fun, args) ==
    LET c1 == Emit(ctx, I("isspecial_", fun.s))
        c2 == MkLabel(c1)
        loopBranch == NewLabel(c2)
        c3 == MkLabel(c2)
        nextBranch == NewLabel(c3)
        c4 == pushLoop(c3, loopBranch, nextBranch)
        c5 == BindLabel(Emit(c4, I("beginloop_", nextBranch)), loopBranch)
        c8 == compileExpr(c5, args[1].val)
        c9 == Emit(Emit(c8, I("pop_", 0)), I("br_", loopBranch))
        c10 == Emit(Emit(Emit(BindLabel(c9, nextBranch), I("endcontext_", 0)),
                         I("push_", 1)), I("invisible_", 0))
    IN popLoop(c10)

\* Inline some specials.  The result is [ok, ctx]: ok is the C++ return
\* value, ctx the compiler context as the call left it.
compileSpecialCall(ctx, ast, fun, args) ==
    CASE fun.s = "&&" /\ Len(args) = 2 ->
           [ok |-> TRUE, ctx |-> compileAnd(ctx, fun, args)]
      [] fun.s = "||" /\ Len(args) = 2 ->
           [ok |-> TRUE, ctx |-> compileOr(ctx, fun, args)]
      [] fun.s = "quote" /\ Len(args) = 1 ->
           [ok |-> TRUE, ctx |-> compileQuote(ctx, fun, args)]
      [] fun.s = "<-" /\ Len(args) = 2 /\ ~validAssignTarget(args[1].val) ->
           invalidTarget(ctx, fun)
      [] fun.s = "<-" /\ Len(args) = 2 /\ args[1].val.t = "SYMSXP" ->
           [ok |-> TRUE,
            ctx |-> compileAssignSym(ctx, fun, args[1].val, args[2].val)]
      [] fun.s = "<-" /\ Len(args) = 2 ->
           [ok |-> TRUE,
            ctx |-> compileAssignComplex(ctx, fun, args[1].val, args[2].val)]
      [] fun.s = "is.null" /\ Len(args) = 1 ->
           [ok |-> TRUE, ctx |-> compileIs(ctx, fun, args, "NILSXP")]
      [] fun.s = "is.list" /\ Len(args) = 1 ->
           [ok |-> TRUE, ctx |-> compileIs(ctx, fun, args, "VECSXP")]
      [] fun.s = "is.pairlist" /\ Len(args) = 1 ->
           [ok |-> TRUE, ctx |-> compileIs(ctx, fun, args, "LISTSXP")]
      [] fun.s \in {"[[", "["} /\ Len(args) = 2
            /\ ~IsSym(args[2].val, "...") /\ ~IsSym(args[2].val, "")
            /\ args[2].tag = "" ->
           [ok |-> TRUE, ctx |-> compileBracket(ctx, ast, fun, args)]
      [] fun.s = "while" /\ Len(args) = 2 ->
           [ok |-> TRUE, ctx |-> compileWhile(ctx, fun, args)]
      [] fun.s = "repeat" /\ Len(args) = 1 ->
           [ok |-> TRUE, ctx |-> compileRepeat(ctx, fun, args)]
      [] fun.s = "next" /\ inLoop(ctx) ->
           [ok |-> TRUE,
            ctx |-> Emit(Emit(ctx, I("isspecial_", fun.s)), I("br_", loop(ctx).next_))]
      [] fun.s = "break" /\ inLoop(ctx) ->
           [ok |-> TRUE,
            ctx |-> Emit(Emit(ctx, I("isspecial_", fun.s)), I("br_", loop(ctx).break_))]
      [] OTHER -> [ok |-> FALSE, ctx |-> ctx]

\* the call_ instruction for the arguments compiled in a
callIns(a, ast) ==
    AddAst(Emit(a.ctx, I("call_", [args |-> a.callArgs, names |-> a.names])), ast)

\* the callee, the promises of the arguments and the call_, appended to
\* the code stream as compileSpecialCall left it
ordinaryCall(ctx, ast, fun, args) ==
    callIns(compileArgs(IF fun.t = "SYMSXP"
                        THEN Emit(ctx, I("ldfun_", fun.s))
                        ELSE Emit(compileExpr(ctx, fun), I("isfun_", 0)),
                        args, 1, [callArgs |-> <<>>, names |-> <<>>]),
            ast)

\* the lowering of a special where compileSpecialCall succeeded, the
\* ordinary call otherwise
inlinedOr(r, ast, fun, args) ==
    IF r.ok THEN r.ctx ELSE ordinaryCall(r.ctx, ast, fun, args)

\* function application
compileCall(ctx, ast, fun, args) ==
    inlinedOr(IF fun.t = "SYMSXP" THEN compileSpecialCall(ctx, ast, fun, args)
              ELSE [ok |-> FALSE, ctx |-> ctx],
              ast, fun, args)

compileGetvar(ctx, name) ==
    IF DDVAL(name) THEN Emit(ctx, I("ldddvar_", name.s))
    ELSE IF name.s = "" THEN Emit(ctx, I("push_", 6))
    ELSE Emit(ctx, I("ldvar_", name.s))

\* compileConst raises the named indicator of the constant to 2: the
\* constants so marked are collected in ctx.consts.
compileConst(ctx, constant) ==
    Emit([ctx EXCEPT !.consts = @ \cup {constant.a}], I("push_", constant.a))

compileExpr(ctx, exp) ==
    CASE exp.t = "LANGSXP" -> compileCall(ctx, exp, exp.fun, exp.args)
      [] exp.t = "SYMSXP" -> compileGetvar(ctx, exp)
      [] OTHER -> compileConst(ctx, exp)

compilePromise(ctx, exp) ==
    ctxPop(Emit(compileExpr(ctxPush(ctx, exp), exp), I("ret_", 0)))

\* Compiler::finalize for a body without default arguments: the Function
\* object holds the promise bodies in the order they were finalized and the
\* entry code last.
finalize(c) == [codes |-> c.fun, entry |-> Len(c.fun), consts |-> c.consts]

compile(exp) ==
    finalize(ctxPop(Emit(compileExpr(ctxPush(NewContext, exp), exp), I("ret_", 0))))

(***************************************************************************)
(* Well-known heap addresses (the preallocated singletons of the runtime). *)
(***************************************************************************)
R_NilValue == 1
R_TrueValue == 2
R_FalseValue == 3
R_LogicalNAValue == 4
R_UnboundValue == 5
R_MissingArg == 6
R_RestartToken == 7
R_DotsSymbolAddr == 8
R_BaseEnv == 9
R_GlobalEnv == 10

(***************************************************************************)
(* Accessors of the host runtime used by the interpreter.                  *)
(***************************************************************************)
TYPEOF(a) == heap[a].type
NAMED(a) == heap[a].named
isObject(a) == heap[a].obj
IS_S4_OBJECT(a) == heap[a].s4
MAYBE_SHARED(a) == heap[a].named > 1

IsVectorType(t) == t \in {"LGLSXP", "INTSXP", "REALSXP", "STRSXP", "VECSXP"}

Rf_length(a) ==
    IF TYPEOF(a) = "NILSXP" THEN 0
    ELSE IF IsVectorType(TYPEOF(a)) THEN Len(heap[a].v)
    ELSE 1

\* asLogical: the logical value of the first element; NA_LOGICAL when there
\* is none or when it cannot be read as a logical.
asLogical(a) ==
    IF ~IsVectorType(TYPEOF(a)) \/ Len(heap[a].v) < 1 THEN NA_LOGICAL
    ELSE CASE TYPEOF(a) = "LGLSXP" -> heap[a].v[1]
           [] TYPEOF(a) \in {"INTSXP", "REALSXP"} ->
                IF heap[a].v[1] = NA_LOGICAL THEN NA_LOGICAL
                ELSE IF heap[a].v[1] # 0 THEN 1 ELSE 0
           [] TYPEOF(a) = "STRSXP" ->
                IF heap[a].v[1] \in {"T", "True", "TRUE", "true"} THEN 1
                ELSE IF heap[a].v[1] \in {"F", "False", "FALSE", "false"} THEN 0
                ELSE NA_LOGICAL
           [] OTHER -> NA_LOGICAL

\* ScalarLogical returns the preallocated logical singletons.
ScalarLogical(r) ==
    IF r = NA_LOGICAL THEN R_LogicalNAValue
    ELSE IF r # 0 THEN R_TrueValue ELSE R_FalseValue

RECURSIVE findVarIn(_, _, _)
findVarIn(h, sym, env) ==
    IF env = 0 THEN R_UnboundValue
    ELSE IF h[env].x.frame[sym] # 0 THEN h[env].x.frame[sym]
    ELSE findVarIn(h, sym, h[env].x.parent)

findVar(sym, env) == findVarIn(heap, sym, env)

\* findFun skips the bindings that are not functions; 0 when there is none
\* (the host then raises "could not find function").
RECURSIVE findFun(_, _)
findFun(sym, env) ==
    IF env = 0 THEN 0
    ELSE IF heap[env].x.frame[sym] # 0
            /\ TYPEOF(heap[env].x.frame[sym]) \in {"CLOSXP", "BUILTINSXP", "SPECIALSXP"}
    THEN heap[env].x.frame[sym]
    ELSE findFun(sym, heap[env].x.parent)

SetNamed(h, a, n) == [h EXCEPT ![a].named = n]

\* INCREMENT_NAMED: the named indicator saturates at 2.
IncrementNamed(h, a) == [h EXCEPT ![a].named = IF @ < 2 THEN @ + 1 ELSE @]

defineVar(h, sym, val, env) == [h EXCEPT ![env].x.frame[sym] = val]

(***************************************************************************)
(* The table of builtins (R_FunTab): the eval column of the entries used.  *)
(***************************************************************************)
FunTabEval(name) ==
    CASE name \in {"c", "stop", "is.null", "is.list", "is.pairlist", "restart"} -> 1
      [] name = "invisible" -> 101
      [] name \in {"break", "next", "return", "&&", "||", "[[", "[", "quote"} -> 0
      [] name \in {"while", "repeat", "<-"} -> 100
      [] name = "{" -> 200
      [] OTHER -> 0

getFlag(f) == (FunTabEval(heap[f].x.name) \div 100) % 10

\* A call that leaves the visibility flag as the callee set it, whatever
\* the print flag says.
visibleAfter_callee(flag, set) == set

\* "if (flag < 2) R_Visible = flag != 1" after the callee has returned:
\* set is what the callee left in R_Visible.
visibleAfter(flag, set) == IF flag < 2 THEN flag # 1 ELSE set

\* What a special leaves in R_Visible, which was flag != 1 when it was
\* called: do_begin hands its last argument to the host's eval, which sets
\* the flag as a load does; the other specials of the model leave it.
specialVisible(name, flag) == IF name = "{" THEN TRUE ELSE flag # 1

(***************************************************************************)
(* The position of the interpreter.                                         *)
(***************************************************************************)
TopFrame == cstack[Len(cstack)]

Running ==
    /\ status = "run"
    /\ steps < MaxSteps
    /\ Len(cstack) > 0

InEval == Running /\ jmp = 0 /\ retval = 0 /\ TopFrame.k = "eval"

CurCode == funs[TopFrame.fn].codes[TopFrame.ci]

CurIns == CurCode.code[TopFrame.pc]

At(op) == InEval /\ CurIns.op = op

curEnv == TopFrame.env

\* The frame of a fresh activation of evalRirCode.
EvalFrame(fn, ci, rho, base) ==
    [k |-> "eval", fn |-> fn, ci |-> ci, pc |-> 1, env |-> rho, base |-> base]

Event(e, a, b) == [e |-> e, a |-> a, b |-> b, s |-> ""]

\* An event that also names a symbol.
EventS(e, a, b, s) == [e |-> e, a |-> a, b |-> b, s |-> s]

\* pc moves past the instruction just read; a jump adds its offset.
Goto(off) == cstack' = [cstack EXCEPT ![Len(cstack)].pc = @ + 1 + off]

Advance == Goto(0)

Did(op) ==
    /\ steps' = steps + 1
    /\ last' = [op |-> op, pre |-> ostack, fr |-> Len(cstack),
                ctx |-> R_GlobalContext, heap |-> heap, cs |-> cstack,
                tr |-> Len(trace), warn |-> warnings, jmp |-> jmp,
                vis |-> R_Visible,
                base |-> IF Len(cstack) > 0 /\ TopFrame.k = "eval"
                         THEN TopFrame.base ELSE 0]

\* error(): the host unwinds to the toplevel context.
Raise(msg) ==
    /\ status' = "error"
    /\ errmsg' = msg
    /\ cstack' = <<>>
    /\ R_GlobalContext' = 0

\* A failed assertion is fatal.
Abort(msg) ==
    /\ status' = "bug"
    /\ errmsg' = msg
    /\ cstack' = <<>>
    /\ UNCHANGED R_GlobalContext

Pop(st) == SubSeq(st, 1, Len(st) - 1)
Peek(st) == st[Len(st)]
\* ostack_at(ctx, i): the slot i below the top.
StackAt(st, i) == st[Len(st) - i]

(***************************************************************************)
(* Simple instructions.                                                    *)
(***************************************************************************)
ins_push_ ==
    /\ At("push_")
    /\ R_Visible' = TRUE
    /\ ostack' = Append(ostack, CurIns.imm)
    /\ Advance
    /\ Did("push_")
    /\ UNCHANGED <<heap, funs, retval, jmp, R_GlobalContext, R_ReturnedValue,
                   status, errmsg, warnings, trace>>

ins_pop_ ==
    /\ At("pop_")
    /\ ostack' = Pop(ostack)
    /\ Advance
    /\ Did("pop_")
    /\ UNCHANGED <<heap, funs, retval, jmp, R_GlobalContext, R_Visible,
                   R_ReturnedValue, status, errmsg, warnings, trace>>

ins_dup_ ==
    /\ At("dup_")
    /\ ostack' = Append(ostack, Peek(ostack))
    /\ Advance
    /\ Did("dup_")
    /\ UNCHANGED <<heap, funs, retval, jmp, R_GlobalContext, R_Visible,
                   R_ReturnedValue, status, errmsg, warnings, trace>>

ins_swap_ ==
    /\ At("swap_")
    /\ LET a == StackAt(ostack, 0)
           b == StackAt(ostack, 1)
       IN ostack' = Append(Append(Pop(Pop(ostack)), a), b)
    /\ Advance
    /\ Did("swap_")
    /\ UNCHANGED <<heap, funs, retval, jmp, R_GlobalContext, R_Visible,
                   R_ReturnedValue, status, errmsg, warnings, trace>>

\* A put_ that leaves the top where it is.
put_stay(st, i) == st

\* put_: the top goes i slots down, the slots above it move up by one.
put(st, i) ==
    [p \in 1..Len(st) |->
        IF p < Len(st) - i THEN st[p]
        ELSE IF p = Len(st) - i THEN st[Len(st)]
        ELSE st[p - 1]]

\* pick_: the slot i below the top goes to the top, the slots above it
\* move down by one.
pick(st, i) ==
    [p \in 1..Len(st) |->
        IF p < Len(st) - i THEN st[p]
        ELSE IF p < Len(st) THEN st[p + 1]
        ELSE st[Len(st) - i]]

\* put_ and pick_ do not check that slot i is inside the stack.
ins_put_ ==
    /\ At("put_")
    /\ IF CurIns.imm < Len(ostack)
       THEN /\ ostack' = put(ostack, CurIns.imm)
            /\ Advance
            /\ UNCHANGED <<status, errmsg, R_GlobalContext>>
       ELSE /\ Abort("put_ outside the stack")
            /\ UNCHANGED ostack
    /\ Did("put_")
    /\ UNCHANGED <<heap, funs, retval, jmp, R_Visible, R_ReturnedValue,
                   warnings, trace>>

ins_pick_ ==
    /\ At("pick_")
    /\ IF CurIns.imm < Len(ostack)
       THEN /\ ostack' = pick(ostack, CurIns.imm)
            /\ Advance
            /\ UNCHANGED <<status, errmsg, R_GlobalContext>>
       ELSE /\ Abort("pick_ outside the stack")
            /\ UNCHANGED ostack
    /\ Did("pick_")
    /\ UNCHANGED <<heap, funs, retval, jmp, R_Visible, R_ReturnedValue,
                   warnings, trace>>

\* shallow_duplicate: a fresh copy, not yet named.
shallow_duplicate(h, v) == Append(h, [h[v] EXCEPT !.named = 0])

\* uniq_: the stack and the heap it leaves.
uniqTop(h, st) ==
    IF h[Peek(st)].named > 1
    THEN [stack |-> Append(Pop(st), Len(h) + 1),
          heap |-> SetNamed(shallow_duplicate(h, Peek(st)), Len(h) + 1, 1)]
    ELSE [stack |-> st,
          heap |-> SetNamed(h, Peek(st), h[Peek(st)].named + 1)]

ins_uniq_ ==
    /\ At("uniq_")
    /\ ostack' = uniqTop(heap, ostack).stack
    /\ heap' = uniqTop(heap, ostack).heap
    /\ Advance
    /\ Did("uniq_")
    /\ UNCHANGED <<funs, retval, jmp, R_GlobalContext, R_Visible,
                   R_ReturnedValue, status, errmsg, warnings, trace>>

\* An is_ that compares the type with the tag and nothing else.
isTag_exact(tag, type) == tag = type

\* is_: the answer for the tag i and the type of the value tested.
isTag(tag, type) ==
    CASE tag \in {"NILSXP", "LGLSXP", "REALSXP"} -> type = tag
      [] tag = "VECSXP" -> type = "VECSXP" \/ type = "LISTSXP"
      [] tag = "LISTSXP" -> type = "LISTSXP" \/ type = "NILSXP"

ins_is_ ==
    /\ At("is_")
    /\ IF CurIns.imm \in {"NILSXP", "LGLSXP", "REALSXP", "VECSXP", "LISTSXP"}
       THEN /\ ostack' = Append(Pop(ostack),
                                IF isTag(CurIns.imm, TYPEOF(Peek(ostack)))
                                THEN R_TrueValue ELSE R_FalseValue)
            /\ Advance
            /\ UNCHANGED <<status, errmsg, R_GlobalContext>>
       ELSE /\ Abort("false")
            /\ ostack' = Pop(ostack)
    /\ Did("is_")
    /\ UNCHANGED <<heap, funs, retval, jmp, R_Visible, R_ReturnedValue,
                   warnings, trace>>

ins_invisible_ ==
    /\ At("invisible_")
    /\ R_Visible' = FALSE
    /\ Advance
    /\ Did("invisible_")
    /\ UNCHANGED <<heap, funs, ostack, retval, jmp, R_GlobalContext,
                   R_ReturnedValue, status, errmsg, warnings, trace>>

ins_aslogical_ ==
    /\ At("aslogical_")
    /\ ostack' = Append(Pop(ostack), ScalarLogical(asLogical(Peek(ostack))))
    /\ Advance
    /\ Did("aslogical_")
    /\ UNCHANGED <<heap, funs, retval, jmp, R_GlobalContext, R_Visible,
                   R_ReturnedValue, status, errmsg, warnings, trace>>

\* LOGICAL(x)[0] of a stack slot.
LOGICAL0(a) == heap[a].v[1]

IsLgl3(x) == x = 1 \/ x = 0 \/ x = NA_LOGICAL

\* The value lgl_or_ pushes for the operands x1 (lower slot) and x2 (top).
lgl_or(x1, x2) ==
    IF x1 = 1 \/ x2 = 1 THEN R_TrueValue
    ELSE IF x1 = 0 /\ x2 = 0 THEN R_FalseValue
    ELSE R_LogicalNAValue

\* A conjunction in which NA absorbs FALSE.
lgl_and_strict(x1, x2) ==
    IF x1 = 1 /\ x2 = 1 THEN R_TrueValue
    ELSE IF x1 = 0 /\ x2 = 0 THEN R_FalseValue
    ELSE IF x1 = NA_LOGICAL \/ x2 = NA_LOGICAL THEN R_LogicalNAValue
    ELSE R_FalseValue

\* The value lgl_and_ pushes for the operands x1 (lower slot) and x2 (top).
lgl_and(x1, x2) ==
    IF x1 = 1 /\ x2 = 1 THEN R_TrueValue
    ELSE IF x1 = 0 \/ x2 = 0 THEN R_FalseValue
    ELSE R_LogicalNAValue

ins_lgl_or_ ==
    /\ At("lgl_or_")
    /\ LET x2 == LOGICAL0(StackAt(ostack, 0))
           x1 == LOGICAL0(StackAt(ostack, 1))
       IN IF IsLgl3(x1) /\ IsLgl3(x2)
          THEN /\ ostack' = Append(Pop(Pop(ostack)), lgl_or(x1, x2))
               /\ Advance
               /\ UNCHANGED <<status, errmsg, R_GlobalContext>>
          ELSE /\ ostack' = Pop(Pop(ostack))
               /\ Abort("x == 1 || x == 0 || x == NA_LOGICAL")
    /\ Did("lgl_or_")
    /\ UNCHANGED <<heap, funs, retval, jmp, R_Visible, R_ReturnedValue,
                   warnings, trace>>

ins_lgl_and_ ==
    /\ At("lgl_and_")
    /\ LET x2 == LOGICAL0(StackAt(ostack, 0))
           x1 == LOGICAL0(StackAt(ostack, 1))
       IN IF IsLgl3(x1) /\ IsLgl3(x2)
          THEN /\ ostack' = Append(Pop(Pop(ostack)), lgl_and(x1, x2))
               /\ Advance
               /\ UNCHANGED <<status, errmsg, R_GlobalContext>>
          ELSE /\ ostack' = Pop(Pop(ostack))
               /\ Abort("x == 1 || x == 0 || x == NA_LOGICAL")
    /\ Did("lgl_and_")
    /\ UNCHANGED <<heap, funs, retval, jmp, R_Visible, R_ReturnedValue,
                   warnings, trace>>

\* An asbool_ that reads a condition of length zero as FALSE.
asbool_cond_empty(t) ==
    IF Rf_length(t) > 0
    THEN (IF TYPEOF(t) = "LGLSXP" THEN LOGICAL0(t) ELSE asLogical(t))
    ELSE 0

\* asbool_: the condition read from the top of the stack.
asbool_cond(t) ==
    IF Rf_length(t) > 0
    THEN (IF TYPEOF(t) = "LGLSXP" THEN LOGICAL0(t) ELSE asLogical(t))
    ELSE NA_LOGICAL

\* asbool_: the message of the error raised when the condition is NA.
asbool_msg(t) ==
    IF Rf_length(t) # 0
    THEN (IF TYPEOF(t) = "LGLSXP" THEN "missing value where TRUE/FALSE needed"
          ELSE "argument is not interpretable as logical")
    ELSE "argument is of length zero"

\* An asbool_ that never warns.
asbool_warn_silent(w, t) == w

\* asbool_: the warnings after the instruction has looked at t.
asbool_warn(w, t) ==
    IF Rf_length(t) > 1
    THEN Append(w, "the condition has length > 1 and only the first element will be used")
    ELSE w

ins_asbool_ ==
    /\ At("asbool_")
    /\ LET t == Peek(ostack)
           cond == asbool_cond(t)
       IN /\ warnings' = asbool_warn(warnings, t)
          /\ IF cond = NA_LOGICAL
             THEN /\ Raise(asbool_msg(t))
                  /\ UNCHANGED ostack
             ELSE /\ ostack' = Append(Pop(ostack),
                                      IF cond # 0 THEN R_TrueValue ELSE R_FalseValue)
                  /\ Advance
                  /\ UNCHANGED <<status, errmsg, R_GlobalContext>>
    /\ Did("asbool_")
    /\ UNCHANGED <<heap, funs, retval, jmp, R_Visible, R_ReturnedValue, trace>>

ins_brobj_ ==
    /\ At("brobj_")
    /\ Goto(IF isObject(Peek(ostack)) THEN CurIns.imm ELSE 0)
    /\ Did("brobj_")
    /\ UNCHANGED <<heap, funs, ostack, retval, jmp, R_GlobalContext, R_Visible,
                   R_ReturnedValue, status, errmsg, warnings, trace>>

brtrueTaken(v) == v = R_TrueValue

\* A brfalse_ that never branches.
brfalseTaken_never(v) == FALSE

brfalseTaken(v) == v = R_FalseValue

ins_brtrue_ ==
    /\ At("brtrue_")
    /\ ostack' = Pop(ostack)
    /\ Goto(IF brtrueTaken(Peek(ostack)) THEN CurIns.imm ELSE 0)
    /\ Did("brtrue_")
    /\ UNCHANGED <<heap, funs, retval, jmp, R_GlobalContext, R_Visible,
                   R_ReturnedValue, status, errmsg, warnings, trace>>

ins_brfalse_ ==
    /\ At("brfalse_")
    /\ ostack' = Pop(ostack)
    /\ Goto(IF brfalseTaken(Peek(ostack)) THEN CurIns.imm ELSE 0)
    /\ Did("brfalse_")
    /\ UNCHANGED <<heap, funs, retval, jmp, R_GlobalContext, R_Visible,
                   R_ReturnedValue, status, errmsg, warnings, trace>>

ins_br_ ==
    /\ At("br_")
    /\ Goto(CurIns.imm)
    /\ Did("br_")
    /\ UNCHANGED <<heap, funs, ostack, retval, jmp, R_GlobalContext, R_Visible,
                   R_ReturnedValue, status, errmsg, warnings, trace>>

\* The assertion of isspecial_ fails in a build that keeps assertions; a
\* build without them goes on to the inlined form.
ins_isspecial_ ==
    /\ At("isspecial_")
    /\ LET val == findVar(CurIns.imm, curEnv)
       IN IF TYPEOF(val) \in {"SPECIALSXP", "BUILTINSXP"}
          THEN Advance /\ UNCHANGED <<status, errmsg, R_GlobalContext>>
          ELSE \/ Abort("TYPEOF(val) == SPECIALSXP || TYPEOF(val) == BUILTINSXP")
               \/ Advance /\ UNCHANGED <<status, errmsg, R_GlobalContext>>
    /\ Did("isspecial_")
    /\ UNCHANGED <<heap, funs, ostack, retval, jmp, R_Visible, R_ReturnedValue,
                   warnings, trace>>

(***************************************************************************)
(* Code objects as values, promises, contexts.                             *)
(***************************************************************************)
\* The pointer to a code object taken for a value: its type reads 31 (the
\* case of rirEval for it, the assertion of escape), its object bit is
\* whatever the header of the code object holds there.  src is the source
\* AST of the code object as a value.
mkCode(fn, ci, src, obj) ==
    [type |-> "CODE", named |-> 0, obj |-> obj, s4 |-> FALSE, v |-> <<>>,
     x |-> [fn |-> fn, ci |-> ci, src |-> src, class |-> ""]]

isValidCodeObject(h, a) == h[a].type = "CODE"

\* rirExpr of a code object: its source AST
rirExpr(h, a) == h[a].x.src

\* escape: a code object never leaves as a value, its AST does.
escape(h, val) == IF isValidCodeObject(h, val) THEN rirExpr(h, val) ELSE val

mkPROMISE(fn, ci, rho) ==
    mkSEXP("PROMSXP", <<>>,
           [fn |-> fn, ci |-> ci, env |-> rho, value |-> R_UnboundValue])

PRVALUE(a) == heap[a].x.value

\* mkPROMISE(CAR(ellipsis), env): the code of the promise is the element of
\* the dots list itself (fn = 0, ci its address), as a rule a promise.
wrapPROMISE(el, rho) ==
    mkSEXP("PROMSXP", <<>>,
           [fn |-> 0, ci |-> el, env |-> rho, value |-> R_UnboundValue])

\* forcePromise(p) evaluates PRCODE(p) by rirEval: a promise that wraps a
\* promise asks for the value of that one, and so on down to a promise with
\* code or with a value, or to a value that is not a promise.
RECURSIVE promChain(_, _)
promChain(h, p) ==
    IF h[p].type = "PROMSXP" /\ h[p].x.value = R_UnboundValue /\ h[p].x.fn = 0
    THEN <<p>> \o promChain(h, h[p].x.ci)
    ELSE <<p>>

chainEnd(h, p) == promChain(h, p)[Len(promChain(h, p))]

\* The chain ends in a promise whose code has not run yet.
NeedsCode(h, p) ==
    /\ h[chainEnd(h, p)].type = "PROMSXP"
    /\ h[chainEnd(h, p)].x.value = R_UnboundValue

\* The value at the end of a chain that needs no code to run.
chainValue(h, p) ==
    IF h[chainEnd(h, p)].type = "PROMSXP" THEN h[chainEnd(h, p)].x.value
    ELSE chainEnd(h, p)

\* The promises of the chain before its end have got the value v.
chainForced(h, p, v) ==
    [a \in 1..Len(h) |->
        IF a # chainEnd(h, p)
           /\ \E i \in 1..Len(promChain(h, p)) : promChain(h, p)[i] = a
        THEN [h[a] EXCEPT !.x.value = v, !.x.env = R_NilValue]
        ELSE h[a]]

\* The activations that force p: kind for p itself, rirEval for the
\* promises it wraps, and the code of the innermost on the stack height sp.
forceFrames(h, p, kind, sp) ==
    [i \in 1..Len(promChain(h, p)) |->
        [k |-> IF i = 1 THEN kind ELSE "rirEval", prom |-> promChain(h, p)[i]]]
    \o <<EvalFrame(h[chainEnd(h, p)].x.fn, h[chainEnd(h, p)].x.ci,
                    h[chainEnd(h, p)].x.env, sp)>>

forceEvents(h, p) ==
    [i \in 1..Len(promChain(h, p)) |-> Event("force", promChain(h, p)[i], 0)]
    \o <<Event("eval", h[chainEnd(h, p)].x.fn, h[chainEnd(h, p)].x.ci)>>

\* A promiseValue that never finds the promise evaluated.
promiseHasValue_never(p) == FALSE

\* promiseValue: "if already evaluated"
promiseHasValue(p) == PRVALUE(p) # R_UnboundValue

\* The context store allocated by beginloop_ and createRirClosureContext:
\* the RCNTXT (callflag, cloenv, nextcontext, the C frame of its jmpbuf) and
\* behind it the saved pc / stack pointer.
mkContext(callflag, cloenv, next, cframe, sp, pc) ==
    mkSEXP("RAWSXP", <<>>,
           [callflag |-> callflag, cloenv |-> cloenv, nextcontext |-> next,
            cframe |-> cframe, stackPointer |-> sp, pc |-> pc])

\* The bitwise AND of two context flags is non-zero.
FlagsMeet(callflag, mask) ==
    \E b \in {1, 2, 4, 8, 16, 32, 64} :
        (callflag \div b) % 2 = 1 /\ (mask \div b) % 2 = 1

\* findcontext: the innermost context of the wanted kind whose environment
\* is rho; 0 when the walk reaches the toplevel context.
RECURSIVE findcontext(_, _, _)
findcontext(cptr, mask, rho) ==
    IF cptr = 0 THEN 0
    ELSE IF FlagsMeet(heap[cptr].x.callflag,
                      IF FlagsMeet(mask, CTXT_LOOP) THEN CTXT_LOOP ELSE mask)
            /\ heap[cptr].x.cloenv = rho
    THEN cptr
    ELSE findcontext(heap[cptr].x.nextcontext, mask, rho)

\* The contexts a jump to target unwinds, innermost first.
RECURSIVE unwound(_, _)
unwound(cptr, target) ==
    IF cptr = target \/ cptr = 0 THEN <<>>
    ELSE <<Event("unwind", cptr, 0)>> \o unwound(heap[cptr].x.nextcontext, target)

(***************************************************************************)
(* The outcome of a host function: a value, an error or a jump.            *)
(***************************************************************************)
Value(v) == [kind |-> "value", val |-> v, msg |-> "", mask |-> 0, target |-> 0]
Error(msg) == [kind |-> "error", val |-> 0, msg |-> msg, mask |-> 0, target |-> 0]
Jump(target, mask, v) ==
    [kind |-> "jump", val |-> v, msg |-> "", mask |-> mask, target |-> target]

\* The host evaluator on the argument of a special: a constant evaluates to
\* itself, a symbol to its binding, a promise already forced to its value.
hostEval(e, rho) ==
    IF e.t = "CONST" THEN e.a
    ELSE LET val == findVar(e.s, rho)
         IN IF TYPEOF(val) = "PROMSXP" THEN PRVALUE(val) ELSE val

\* The arguments the host evaluator is modelled for: it does not enter the
\* interpreter again.
HostCanEval(e, rho) ==
    \/ e.t = "CONST"
    \/ /\ e.t = "SYMSXP"
       /\ LET val == findVar(e.s, rho)
          IN /\ val \notin {R_UnboundValue, R_MissingArg}
             /\ TYPEOF(val) = "PROMSXP" => PRVALUE(val) # R_UnboundValue

\* The innermost target of an assignment: evalseq goes down the first
\* arguments of the calls.
RECURSIVE innermost(_)
innermost(l) ==
    IF l.t # "LANGSXP" THEN l
    ELSE IF Len(l.args) = 0 THEN [t |-> "NILSXP"]
    ELSE innermost(l.args[1].val)

\* do_set on a target the compiler does not rewrite: the errors of do_set,
\* evalseq and applydefine.  A symbol is reached by evalseq only under a
\* single call whose head is not a symbol.
do_set(call, rho) ==
    LET lhs == call.args[1].val
    IN IF lhs.t # "LANGSXP"
       THEN Error("invalid (do_set) left-hand side to assignment")
       ELSE IF innermost(lhs).t = "NILSXP"
       THEN Error("invalid (NULL) left side of assignment")
       ELSE IF innermost(lhs).t # "SYMSXP"
       THEN Error("target of assignment expands to non-language object")
       ELSE Error("invalid function in complex assignment")

do_setModelled(call, rho) ==
    /\ Len(call.args) = 2
    /\ ~validAssignTarget(call.args[1].val)
    /\ HostCanEval(call.args[2].val, rho)
    /\ innermost(call.args[1].val).t = "SYMSXP" =>
          /\ call.args[1].val.args[1].val.t = "SYMSXP"
          /\ HostCanEval(call.args[1].val.args[1].val, rho)

\* do_break, do_return and do_begin.
hostSpecial(name, call, rho) ==
    CASE name \in {"break", "next"} ->
           LET mask == IF name = "break" THEN CTXT_BREAK ELSE CTXT_NEXT
               t == findcontext(R_GlobalContext, mask, rho)
           IN IF t = 0 THEN Error("no loop for break/next, jumping to top level")
              ELSE Jump(t, mask, R_NilValue)
      [] name = "return" ->
           LET v == IF Len(call.args) = 0 THEN R_NilValue
                    ELSE hostEval(call.args[1].val, rho)
               t == findcontext(R_GlobalContext, CTXT_FUNCTION + 16, rho)
           IN IF t = 0 THEN Error("no function to return from, jumping to top level")
              ELSE Jump(t, CTXT_FUNCTION + 16, v)
      [] name = "<-" -> do_set(call, rho)
      [] OTHER ->
           IF Len(call.args) = 0 THEN Value(R_NilValue)
           ELSE Value(hostEval(call.args[Len(call.args)].val, rho))

HostSpecialModelled(name, call, rho) ==
    \/ /\ name \in {"break", "next", "return", "{"}
       /\ \A i \in 1..Len(call.args) : HostCanEval(call.args[i].val, rho)
    \/ name = "<-" /\ do_setModelled(call, rho)

\* The builtins of the model: stop raises an error, the others return their
\* first argument.
\* The innermost function context, 0 when there is none.
RECURSIVE functionContext(_)
functionContext(cptr) ==
    IF cptr = 0 THEN 0
    ELSE IF FlagsMeet(heap[cptr].x.callflag, CTXT_FUNCTION) THEN cptr
    ELSE functionContext(heap[cptr].x.nextcontext)

\* restart marks the innermost function context for a restart and signals
\* a condition, which the host turns into a jump to that context with the
\* restart token; the mark is set in the heap by hostHeap.
hostBuiltin(name, argslist) ==
    IF name = "stop" THEN Error("stop")
    ELSE IF name = "restart"
    THEN (IF functionContext(R_GlobalContext) = 0
          THEN Error("no function to restart")
          ELSE Jump(functionContext(R_GlobalContext), CTXT_RESTART, R_RestartToken))
    ELSE IF Len(argslist) = 0 THEN Value(R_NilValue)
    ELSE Value(argslist[1].val)

\* SET_RESTART_BIT_ON(cptr->callflag) by restart, no change by the others.
hostHeap(name) ==
    IF name = "restart" /\ functionContext(R_GlobalContext) # 0
    THEN [heap EXCEPT ![functionContext(R_GlobalContext)].x.callflag =
                         CTXT_RETURN + CTXT_RESTART]
    ELSE heap

\* What a host call leaves behind: its value goes to the stack (after
\* restoreCont has cut the stack back to sp), its error unwinds to the
\* toplevel, its jump unwinds the contexts and the C stack to the target.
\* base is the C stack the caller resumes with.
Outcome(o, base, st, vis, tr) ==
    CASE o.kind = "value" ->
           /\ ostack' = Append(st, o.val)
           /\ cstack' = base
           /\ R_Visible' = vis
           /\ trace' = tr
           /\ UNCHANGED <<jmp, R_GlobalContext, R_ReturnedValue, status, errmsg>>
      [] o.kind = "error" ->
           /\ ostack' = st
           /\ Raise(o.msg)
           /\ R_Visible' = vis
           /\ trace' = tr
           /\ UNCHANGED <<jmp, R_ReturnedValue>>
      [] OTHER ->
           /\ ostack' = st
           /\ jmp' = o.mask
           /\ R_ReturnedValue' = o.val
           /\ R_GlobalContext' = o.target
           /\ cstack' = SubSeq(base, 1, heap[o.target].x.cframe)
           /\ R_Visible' = vis
           /\ trace' = tr \o unwound(R_GlobalContext, o.target)
           /\ UNCHANGED <<status, errmsg>>

(***************************************************************************)
(* Variables, functions, assignment.                                       *)
(***************************************************************************)
Syms == {"x", "y", "f", "g", "h", "k", "c", "stop", "invisible", "{",
         "&&", "||", "<-", "[[", "[", "while", "repeat", "break", "next",
         "return", "quote", "...", "is.null", "is.list", "is.pairlist",
         "f<-", "g<-", "c<-", "h<-", "value", "d", "e", "r", "w", "restart",
         "m", "n", "q", "s", "t", "k<-"}

EmptyFrame == [s \in Syms |-> 0]

\* NAMED(val) == 0 && val != R_NilValue: SET_NAMED(val, 1)
NameIfFresh(h, val) ==
    IF h[val].named = 0 /\ val # R_NilValue THEN SetNamed(h, val, 1) ELSE h

\* A load that pushes what the lookup found, promise or marker.
loadChecked_never(val) == FALSE

\* The lookup found the unbound or the missing marker.
loadChecked(val) == val \in {R_UnboundValue, R_MissingArg}

\* ldvar_ and ldddvar_ after the lookup has given val; missing is the
\* message of the instruction for a missing argument.
loadVar(val, missing) ==
          CASE loadChecked(val) /\ val = R_UnboundValue ->
                 /\ Raise("object not found")
                 /\ UNCHANGED <<heap, ostack, trace>>
            [] loadChecked(val) /\ val = R_MissingArg ->
                 /\ Raise(missing)
                 /\ UNCHANGED <<heap, ostack, trace>>
            [] TYPEOF(val) = "PROMSXP" /\ promiseHasValue(val) ->
                 \* promiseValue: already evaluated
                 /\ heap' = SetNamed(heap, PRVALUE(val), 2)
                 /\ ostack' = Append(ostack, PRVALUE(val))
                 /\ Advance
                 /\ trace' = Append(trace, Event("value", val, PRVALUE(val)))
                 /\ UNCHANGED <<status, errmsg, R_GlobalContext>>
            [] TYPEOF(val) = "PROMSXP" /\ ~promiseHasValue(val)
                  /\ NeedsCode(heap, val) ->
                 \* promiseValue: forcePromise runs the code of the promise
                 /\ cstack' = [cstack EXCEPT ![Len(cstack)].pc = @ + 1]
                        \o forceFrames(heap, val, "forcePromise", Len(ostack))
                 /\ trace' = trace \o forceEvents(heap, val)
                 /\ UNCHANGED <<heap, ostack, status, errmsg, R_GlobalContext>>
            [] TYPEOF(val) = "PROMSXP" /\ ~promiseHasValue(val)
                  /\ ~NeedsCode(heap, val) ->
                 \* the promise wraps a value or a promise that has one
                 IF chainValue(heap, val) = R_MissingArg
                 THEN /\ Raise("argument \"\" is missing, with no default")
                      /\ UNCHANGED <<heap, ostack, trace>>
                 ELSE /\ heap' = SetNamed(chainForced(heap, val, chainValue(heap, val)),
                                          chainValue(heap, val), 2)
                      /\ ostack' = Append(ostack, chainValue(heap, val))
                      /\ Advance
                      /\ trace' = Append(trace, Event("forced", val,
                                                       chainValue(heap, val)))
                      /\ UNCHANGED <<status, errmsg, R_GlobalContext>>
            [] OTHER ->
                 /\ heap' = NameIfFresh(heap, val)
                 /\ ostack' = Append(ostack, val)
                 /\ Advance
                 /\ UNCHANGED <<status, errmsg, R_GlobalContext, trace>>

ins_ldvar_ ==
    /\ At("ldvar_")
    /\ R_Visible' = TRUE
    /\ loadVar(findVar(CurIns.imm, curEnv),
               "argument \"" \o CurIns.imm \o "\" is missing, with no default")
    /\ Did("ldvar_")
    /\ UNCHANGED <<funs, retval, jmp, R_ReturnedValue, warnings>>

\* ddVal: the position a ..n symbol names.
ddVal(name) == IF name = "..1" THEN 1 ELSE 2

\* Rf_ddfindVar raises its own errors when there is no "..." to look in or
\* the list is too short; otherwise the load goes on as ldvar_ does with
\* the n-th element of the list.  (What the host does with a "..." that is
\* bound to something else than a dots list depends on its version: no
\* program of the model gets there.)
ins_ldddvar_ ==
    /\ At("ldddvar_")
    /\ LET vl == findVar("...", curEnv)
           i == ddVal(CurIns.imm)
       IN /\ vl = R_UnboundValue \/ TYPEOF(vl) = "DOTSXP"
          /\ IF vl = R_UnboundValue
             THEN /\ Raise("..n used in an incorrect context, no ... to look in")
                  /\ UNCHANGED <<heap, ostack, trace, R_Visible>>
             ELSE IF Len(heap[vl].x.list) < i
             THEN /\ Raise("the ... list does not contain n elements")
                  /\ UNCHANGED <<heap, ostack, trace, R_Visible>>
             ELSE /\ R_Visible' = TRUE
                  /\ loadVar(heap[vl].x.list[i].val,
                             "argument is missing, with no default")
    /\ Did("ldddvar_")
    /\ UNCHANGED <<funs, retval, jmp, R_ReturnedValue, warnings>>

\* forcePromise, after the code of the promise has returned: the value is
\* stored in the promise and marked shared, and the load that forced the
\* promise pushes it.
forcePromise_return ==
    /\ Running /\ jmp = 0 /\ retval # 0
    /\ TopFrame.k = "forcePromise"
    /\ LET p == TopFrame.prom
           val == escape(heap, retval)
       IN /\ heap' = SetNamed([heap EXCEPT ![p].x.value = val,
                                           ![p].x.env = R_NilValue], val, 2)
          /\ ostack' = Append(ostack, val)
          /\ trace' = Append(trace, Event("forced", p, val))
    /\ cstack' = Pop(cstack)
    /\ retval' = 0
    /\ Did("forcePromise")
    /\ UNCHANGED <<funs, jmp, R_GlobalContext, R_Visible, R_ReturnedValue,
                   status, errmsg, warnings>>

ins_stvar_ ==
    /\ At("stvar_")
    /\ LET val == escape(heap, Peek(ostack))
       IN heap' = defineVar(IncrementNamed(heap, val), CurIns.imm, val, curEnv)
    /\ ostack' = Pop(ostack)
    /\ Advance
    /\ Did("stvar_")
    /\ UNCHANGED <<funs, retval, jmp, R_GlobalContext, R_Visible,
                   R_ReturnedValue, status, errmsg, warnings, trace>>

\* A jit that takes every body for one that is not compiled.
NeedsJit_always(cls) == TRUE

\* jit: a closure whose body is not compiled yet gets a compiled body.
NeedsJit(cls) == heap[cls].x.compiled = 0

\* compileConst: SET_NAMED(constant, 2)
markConsts(h, consts) ==
    [a \in 1..Len(h) |-> IF a \in consts THEN [h[a] EXCEPT !.named = 2] ELSE h[a]]

jitHeap(h, cls, fn) ==
    [markConsts(h, fn.consts) EXCEPT ![cls].x.compiled = Len(funs) + 1]

\* SET_BODY(cls, ctx->compiler(body)): fn is the compiled body
setBody(cls, fn) ==
    /\ funs' = Append(funs, fn)
    /\ heap' = jitHeap(heap, cls, fn)

jit(cls) == setBody(cls, compile(heap[cls].x.body))

ins_ldfun_ ==
    /\ At("ldfun_")
    /\ LET val == findFun(CurIns.imm, curEnv)
       IN IF val = 0
          THEN /\ Raise("could not find function")
               /\ UNCHANGED <<heap, funs, ostack>>
          ELSE IF TYPEOF(val) \notin {"CLOSXP", "SPECIALSXP", "BUILTINSXP"}
          THEN /\ Raise("attempt to apply non-function")
               /\ UNCHANGED <<heap, funs, ostack>>
          ELSE /\ IF TYPEOF(val) = "CLOSXP" /\ NeedsJit(val)
                  THEN jit(val)
                  ELSE UNCHANGED <<heap, funs>>
               /\ ostack' = Append(ostack, val)
               /\ Advance
               /\ UNCHANGED <<status, errmsg, R_GlobalContext>>
    /\ Did("ldfun_")
    /\ UNCHANGED <<retval, jmp, R_Visible, R_ReturnedValue, warnings, trace>>

(***************************************************************************)
(* Loops: beginloop_, endcontext_ and the SETJMP handler of beginloop_.    *)
(***************************************************************************)
ins_beginloop_ ==
    /\ At("beginloop_")
    /\ LET cntxt_store == Len(heap) + 1
       IN /\ heap' = Append(heap, mkContext(CTXT_LOOP, curEnv, R_GlobalContext,
                                            Len(cstack), Len(ostack) + 1,
                                            TopFrame.pc))
          /\ ostack' = Append(ostack, cntxt_store)
          /\ R_GlobalContext' = cntxt_store
          /\ trace' = Append(trace, Event("begincontext", cntxt_store, 0))
    /\ Advance
    /\ Did("beginloop_")
    /\ UNCHANGED <<funs, retval, jmp, R_Visible, R_ReturnedValue, status,
                   errmsg, warnings>>

ins_endcontext_ ==
    /\ At("endcontext_")
    /\ LET cntxt_store == Peek(ostack)
       IN IF TYPEOF(cntxt_store) = "RAWSXP"
          THEN /\ R_GlobalContext' = heap[cntxt_store].x.nextcontext
               /\ ostack' = Pop(ostack)
               /\ trace' = Append(trace, Event("endcontext", cntxt_store, 0))
               /\ Advance
               /\ UNCHANGED <<status, errmsg>>
          ELSE /\ Abort("TYPEOF(cntxt_store) == RAWSXP")
               /\ UNCHANGED <<ostack, trace>>
    /\ Did("endcontext_")
    /\ UNCHANGED <<heap, funs, retval, jmp, R_Visible, R_ReturnedValue, warnings>>

\* A handler that does not cut the stack back.
restoreStack_none(st, sp) == st

\* The stack cut back to the length sp (rl_setLength).
restoreStack(st, sp) == SubSeq(st, 1, sp)

\* A handler that takes the jump offset whatever the token is.
loopResumePc_break(code, oldPc, s) == oldPc + 1 + code[oldPc].imm

\* The pc at which a loop resumes after a non-local break or next: the pc
\* saved in the frame, moved over the jump offset, plus the offset on break.
loopResumePc(code, oldPc, s) ==
    IF s = CTXT_BREAK THEN oldPc + 1 + code[oldPc].imm ELSE oldPc + 1

beginloop_SETJMP ==
    /\ Running /\ jmp # 0
    /\ TopFrame.k = "eval"
    /\ LET sp == heap[R_GlobalContext].x.stackPointer
           st == restoreStack(ostack, sp)
       IN IF Len(ostack) >= sp /\ TYPEOF(Peek(st)) = "RAWSXP"
             /\ Peek(st) = R_GlobalContext
          THEN /\ ostack' = st
               /\ cstack' = [cstack EXCEPT ![Len(cstack)].pc =
                                loopResumePc(CurCode.code, heap[Peek(st)].x.pc, jmp)]
               /\ UNCHANGED <<status, errmsg, R_GlobalContext>>
          ELSE /\ Abort("stack botched")
               /\ UNCHANGED ostack
    /\ jmp' = 0
    /\ Did("beginloop_SETJMP")
    /\ UNCHANGED <<heap, funs, retval, R_Visible, R_ReturnedValue, warnings, trace>>

(***************************************************************************)
(* Calls: call_, createArgsList, doCall, rirCallClosure, rirCallTrampoline.*)
(***************************************************************************)
\* __listAppend
listAppend(result, value, name) == Append(result, [val |-> value, name |-> name])

\* The activation of createArgsList for a call whose callee is a builtin
\* (eager) or a closure (promises).
ArgsFrame(for, selector, callee, call, ins, rho, fn, eager) ==
    [k |-> "createArgsList", for |-> for, selector |-> selector,
     callee |-> callee, call |-> call,
     args |-> ins.imm.args, names |-> ins.imm.names, env |-> rho, fn |-> fn,
     eager |-> eager, i |-> 1, j |-> 0, result |-> <<>>]

\* A doCall that evaluates the arguments of every callee eagerly.
eagerArgs_always(callee) == TRUE

\* doCall: the argument list of a builtin is evaluated eagerly, the one of
\* a closure is a list of promises.
eagerArgs(callee) == TYPEOF(callee) = "BUILTINSXP"

ins_call_ ==
    /\ At("call_")
    /\ LET cls == Peek(ostack)
           call == CurIns.ast
           base == [cstack EXCEPT ![Len(cstack)].pc = @ + 1]
           flag == getFlag(cls)
       IN CASE call.t = "NONE" ->
                 /\ Abort("sidx")
                 /\ ostack' = Pop(ostack)
                 /\ UNCHANGED <<jmp, R_Visible, R_ReturnedValue, trace>>
            [] call.t # "NONE" /\ TYPEOF(cls) = "SPECIALSXP" ->
                 /\ HostSpecialModelled(heap[cls].x.name, call, curEnv)
                 /\ Outcome(hostSpecial(heap[cls].x.name, call, curEnv), base,
                            Pop(ostack),
                            visibleAfter(flag, specialVisible(heap[cls].x.name, flag)),
                            Append(trace, Event("special", cls, 0)))
            [] call.t # "NONE" /\ TYPEOF(cls) \in {"BUILTINSXP", "CLOSXP"} ->
                 /\ ostack' = Pop(ostack)
                 /\ cstack' = Append(base,
                        ArgsFrame("doCall", "", cls, call, CurIns, curEnv, TopFrame.fn,
                                  eagerArgs(cls)))
                 /\ UNCHANGED <<jmp, R_GlobalContext, R_Visible, R_ReturnedValue,
                                status, errmsg, trace>>
            [] OTHER ->
                 /\ Abort("Don't know how to run other stuff")
                 /\ ostack' = Pop(ostack)
                 /\ UNCHANGED <<jmp, R_Visible, R_ReturnedValue, trace>>
    /\ Did("call_")
    /\ UNCHANGED <<heap, funs, retval, warnings>>

\* An expansion of `...` that gives every element the name of the slot.
dotsTag_slot(el, name) == name

\* "name = TAG(ellipsis)": the element carries its own tag.
dotsTag(el, name) == el.name

\* "flatten the ellipsis": one turn of the while loop over the dots list
\* in createArgsList and createArgsListStack.  fr is the activation, j the
\* number of elements done, name the name of the slot; a `...` that is not
\* bound to a dots list adds nothing.
flattenEllipsis(fr, name) ==
    LET ellipsis == findVar("...", fr.env)
        el == heap[ellipsis].x.list[fr.j + 1]
        nextArg == [cstack EXCEPT ![Len(cstack)].i = @ + 1,
                                  ![Len(cstack)].j = 0]
        nextEl(v) == [cstack EXCEPT
                         ![Len(cstack)].j = @ + 1,
                         ![Len(cstack)].result =
                             listAppend(@, v, dotsTag(el, name))]
    IN CASE TYPEOF(ellipsis) # "DOTSXP" ->
              /\ cstack' = nextArg
              /\ UNCHANGED <<heap, R_Visible, R_GlobalContext, status, errmsg, trace>>
         [] TYPEOF(ellipsis) = "DOTSXP" /\ fr.j >= Len(heap[ellipsis].x.list) ->
              /\ cstack' = nextArg
              /\ UNCHANGED <<heap, R_Visible, R_GlobalContext, status, errmsg, trace>>
         [] TYPEOF(ellipsis) = "DOTSXP" /\ fr.j < Len(heap[ellipsis].x.list)
               /\ ~fr.eager ->
              \* mkPROMISE(CAR(ellipsis), env)
              /\ heap' = Append(heap, wrapPROMISE(el.val, fr.env))
              /\ cstack' = nextEl(Len(heap) + 1)
              /\ trace' = Append(trace, EventS("wrap", Len(heap) + 1, el.val, el.name))
              /\ UNCHANGED <<R_Visible, R_GlobalContext, status, errmsg>>
         [] TYPEOF(ellipsis) = "DOTSXP" /\ fr.j < Len(heap[ellipsis].x.list)
               /\ fr.eager /\ TYPEOF(el.val) = "PROMSXP"
               /\ NeedsCode(heap, el.val) ->
              \* rirEval(CAR(ellipsis), env) forces the promise
              /\ cstack' = cstack \o forceFrames(heap, el.val, "rirEval", Len(ostack))
              /\ R_Visible' = TRUE
              /\ trace' = trace \o forceEvents(heap, el.val)
              /\ UNCHANGED <<heap, R_GlobalContext, status, errmsg>>
         [] TYPEOF(ellipsis) = "DOTSXP" /\ fr.j < Len(heap[ellipsis].x.list)
               /\ fr.eager /\ chainValue(heap, el.val) = R_MissingArg
               /\ ~NeedsCode(heap, el.val) ->
              /\ Raise("argument \"\" is missing, with no default")
              /\ UNCHANGED <<heap, R_Visible, trace>>
         [] OTHER ->
              \* a promise that has its value, or a value
              /\ heap' = SetNamed(chainForced(heap, el.val, chainValue(heap, el.val)),
                                  chainValue(heap, el.val), 2)
              /\ cstack' = nextEl(chainValue(heap, el.val))
              /\ trace' = Append(trace, Event("value", el.val, chainValue(heap, el.val)))
              /\ UNCHANGED <<R_Visible, R_GlobalContext, status, errmsg>>

InArgs ==
    /\ Running /\ jmp = 0
    /\ TopFrame.k = "createArgsList"

\* One turn of the loop of createArgsList, for argument i.
createArgsList_loop ==
    /\ InArgs /\ retval = 0
    /\ TopFrame.i <= Len(TopFrame.args)
    /\ LET fr == TopFrame
           offset == fr.args[fr.i]
           name == fr.names[fr.i]
           next(res) == [cstack EXCEPT ![Len(cstack)].i = @ + 1,
                                       ![Len(cstack)].result = res]
       IN CASE offset = DOTS_ARG_IDX -> flattenEllipsis(fr, name)
            [] offset = MISSING_ARG_IDX ->
                 IF fr.eager
                 THEN /\ Raise("argument is empty")
                      /\ UNCHANGED <<heap, R_Visible, trace>>
                 ELSE /\ cstack' = next(listAppend(fr.result, R_MissingArg, ""))
                      /\ UNCHANGED <<heap, R_Visible, R_GlobalContext, status,
                                     errmsg, trace>>
            [] OTHER ->
                 IF fr.eager
                 THEN \* evalRirCode(codeAt(function(c), offset), ctx, env, 0)
                      /\ cstack' = Append(cstack,
                                          EvalFrame(fr.fn, offset, fr.env, Len(ostack)))
                      /\ R_Visible' = TRUE
                      /\ trace' = Append(trace, Event("eval", fr.fn, offset))
                      /\ UNCHANGED <<heap, R_GlobalContext, status, errmsg>>
                 ELSE \* createPromise(codeAt(function(c), offset), env)
                      /\ heap' = Append(heap, mkPROMISE(fr.fn, offset, fr.env))
                      /\ cstack' = next(listAppend(fr.result, Len(heap) + 1, name))
                      /\ trace' = Append(trace, EventS("promise", Len(heap) + 1, offset,
                                                        fr.for))
                      /\ UNCHANGED <<R_Visible, R_GlobalContext, status, errmsg>>
    /\ Did("createArgsList")
    /\ UNCHANGED <<funs, ostack, retval, jmp, R_ReturnedValue, warnings>>

\* createArgsList gets the value of an eagerly evaluated argument.
createArgsList_arg ==
    /\ InArgs /\ retval # 0
    /\ LET fr == TopFrame
           arg == escape(heap, retval)
       IN IF TYPEOF(arg) = "PROMSXP"
          THEN Abort("TYPEOF(arg) != PROMSXP")
          ELSE IF fr.args[fr.i] = DOTS_ARG_IDX
          THEN \* the value of an element of the dots list, not escaped
               /\ cstack' = [cstack EXCEPT
                                ![Len(cstack)].j = @ + 1,
                                ![Len(cstack)].result =
                                    listAppend(@, retval,
                                        dotsTag(heap[findVar("...", fr.env)].x.list[fr.j + 1],
                                                fr.names[fr.i]))]
               /\ UNCHANGED <<status, errmsg, R_GlobalContext>>
          ELSE /\ cstack' = [cstack EXCEPT
                                ![Len(cstack)].i = @ + 1,
                                ![Len(cstack)].result =
                                    listAppend(@, arg, fr.names[fr.i])]
               /\ UNCHANGED <<status, errmsg, R_GlobalContext>>
    /\ retval' = 0
    /\ Did("createArgsList_arg")
    /\ UNCHANGED <<heap, funs, ostack, jmp, R_Visible, R_ReturnedValue,
                   warnings, trace>>

ArgsDone == InArgs /\ retval = 0 /\ TopFrame.i > Len(TopFrame.args)

\* doCall, case BUILTINSXP, once the argument list is built.
doCall_builtin ==
    /\ ArgsDone /\ TopFrame.for = "doCall"
    /\ TYPEOF(TopFrame.callee) = "BUILTINSXP"
    /\ LET fr == TopFrame
           flag == getFlag(fr.callee)
       IN Outcome(hostBuiltin(heap[fr.callee].x.name, fr.result), Pop(cstack),
                  ostack, visibleAfter(flag, R_Visible),
                  Append(trace, Event("builtin", fr.callee, Len(fr.result))))
    /\ heap' = hostHeap(heap[TopFrame.callee].x.name)
    /\ Did("doCall_builtin")
    /\ UNCHANGED <<funs, retval, warnings>>

\* closureArgumentAdaptor: the environment of the activation.  The actuals
\* that carry the name of a formal are matched to it, the others to the
\* remaining formals by position.
hasDots(callee) ==
    \E j \in 1..Len(heap[callee].x.formals) : heap[callee].x.formals[j] = "..."

\* The actuals that are left for "..." once the other formals are matched.
dotsActuals(callee, actuals) ==
    LET formals == heap[callee].x.formals
        IsFormal(s) == \E j \in 1..Len(formals) : formals[j] = s
        ByPos(a) == ~IsFormal(a.name)
        Free(s) == s # "..." /\ \A j \in 1..Len(actuals) : actuals[j].name # s
        positional == SelectSeq(actuals, ByPos)
        free == SelectSeq(formals, Free)
    IN SubSeq(positional, Len(free) + 1, Len(positional))

\* dots is the address of the dots list of the activation.
closureArgumentAdaptor(callee, actuals, dots) ==
    LET formals == heap[callee].x.formals
        IsFormal(s) == \E j \in 1..Len(formals) : formals[j] = s
        ByName(s) == {j \in 1..Len(actuals) : actuals[j].name = s}
        ByPos(a) == ~IsFormal(a.name)
        Free(s) == s # "..." /\ ByName(s) = {}
        positional == SelectSeq(actuals, ByPos)
        free == SelectSeq(formals, Free)
    IN mkEnv([s \in Syms |->
                 IF ~IsFormal(s) THEN 0
                 ELSE IF s = "..."
                 THEN IF dotsActuals(callee, actuals) = <<>>
                      THEN R_MissingArg ELSE dots
                 ELSE IF ByName(s) # {}
                 THEN actuals[CHOOSE j \in ByName(s) : TRUE].val
                 ELSE LET k == CHOOSE k \in 1..Len(free) : free[k] = s
                      IN IF k <= Len(positional) THEN positional[k].val
                         ELSE R_MissingArg],
             heap[callee].x.cloenv)

\* rirCallClosure up to the call of the body: the new environment and the
\* context store are pushed on the stack st, the context is begun.  base is
\* the C stack of the caller.  The activation remembers st in entry, for
\* the properties only.
rirCallClosure(callee, actuals, st, base, for) ==
    LET newEnv == Len(heap) + 1
        cntxt_store == Len(heap) + 2
        body == funs[heap[callee].x.compiled]
    IN IF ~hasDots(callee) /\ Len(actuals) > Len(heap[callee].x.formals)
       THEN /\ Raise("unused argument")
            /\ ostack' = st
            /\ UNCHANGED <<heap, R_Visible, trace>>
       ELSE /\ heap' = heap \o
                  <<closureArgumentAdaptor(callee, actuals, Len(heap) + 3),
                    mkContext(CTXT_RETURN, newEnv, R_GlobalContext,
                              Len(base) + 1, Len(st) + 2, 0)>>
                  \o IF hasDots(callee) /\ dotsActuals(callee, actuals) # <<>>
                     THEN <<mkSEXP("DOTSXP", <<>>,
                                   [list |-> dotsActuals(callee, actuals)])>>
                     ELSE <<>>
            /\ ostack' = st \o <<newEnv, cntxt_store>>
            /\ R_GlobalContext' = cntxt_store
            /\ cstack' = base \o
                  <<[k |-> "rirCallClosure", store |-> cntxt_store,
                     stackguard_size_before |-> Len(st) + 2,
                     stackguard_before |-> cntxt_store,
                     fn |-> heap[callee].x.compiled, env |-> newEnv,
                     entry |-> st],
                    EvalFrame(heap[callee].x.compiled, body.entry, newEnv,
                              Len(st) + 2)>>
            /\ R_Visible' = TRUE
            /\ trace' = trace \o
                  <<EventS("closure", callee, actuals, for),
                    Event("begincontext", cntxt_store, 0),
                    Event("eval", heap[callee].x.compiled, body.entry)>>
            /\ UNCHANGED <<status, errmsg>>

\* doCall, case CLOSXP, once the argument list is built.
rirCallClosure_enter ==
    /\ ArgsDone /\ TopFrame.for = "doCall"
    /\ TYPEOF(TopFrame.callee) = "CLOSXP"
    /\ rirCallClosure(TopFrame.callee, TopFrame.result, ostack, Pop(cstack), "doCall")
    /\ Did("rirCallClosure")
    /\ UNCHANGED <<funs, retval, jmp, R_ReturnedValue, warnings>>

\* A trampoline that leaves the restart bit of the context on.
turnRestartOff_keep(h, store) == h

\* cntxt->callflag = CTXT_RETURN
turnRestartOff(h, store) == [h EXCEPT ![store].x.callflag = CTXT_RETURN]

\* rirCallTrampoline, entered again through its SETJMP: the stack is cut
\* back to the snapshot; on the restart token the body is evaluated again
\* by evalRirCode(code, ctx, env, nargs), otherwise the value of the
\* transfer is returned.
rirCallTrampoline_SETJMP ==
    /\ Running /\ jmp # 0
    /\ TopFrame.k = "rirCallClosure"
    /\ LET fr == TopFrame
           sp == heap[fr.store].x.stackPointer
       IN IF Len(ostack) < sp
          THEN /\ Abort("ostack_length(ctx) >= (continuation)->stackPointer")
               /\ UNCHANGED <<ostack, retval, heap, R_Visible, R_ReturnedValue,
                              trace>>
          ELSE IF R_ReturnedValue = R_RestartToken
          THEN /\ ostack' = restoreStack(ostack, sp)
               /\ heap' = turnRestartOff(heap, fr.store)
               /\ R_ReturnedValue' = R_NilValue
               /\ cstack' = Append(cstack,
                                   EvalFrame(fr.fn, funs[fr.fn].entry, fr.env, sp))
               /\ R_Visible' = TRUE
               /\ trace' = trace \o <<Event("restart", fr.store, 0),
                                      Event("eval", fr.fn, funs[fr.fn].entry)>>
               /\ UNCHANGED <<status, errmsg, retval, R_GlobalContext>>
          ELSE /\ ostack' = restoreStack(ostack, sp)
               /\ retval' = R_ReturnedValue
               /\ UNCHANGED <<status, errmsg, cstack, R_GlobalContext, heap,
                              R_Visible, R_ReturnedValue, trace>>
    /\ jmp' = 0
    /\ Did("rirCallTrampoline_SETJMP")
    /\ UNCHANGED <<funs, warnings>>

\* rirCallClosure after the trampoline has returned: the stack guard, then
\* endRirContext, the pop of the environment, and the push of the result by
\* the calling instruction.
rirCallClosure_return ==
    /\ Running /\ jmp = 0 /\ retval # 0
    /\ TopFrame.k = "rirCallClosure"
    /\ LET fr == TopFrame
           cntxt_store == Peek(ostack)
       IN IF /\ Len(ostack) = fr.stackguard_size_before
             /\ cntxt_store = fr.stackguard_before
             /\ TYPEOF(cntxt_store) = "RAWSXP"
          THEN /\ R_GlobalContext' = heap[cntxt_store].x.nextcontext
               /\ ostack' = Append(Pop(Pop(ostack)), retval)
               /\ cstack' = Pop(cstack)
               /\ trace' = trace \o <<Event("endcontext", cntxt_store, 0),
                                      Event("return", fr.fn, retval)>>
               /\ UNCHANGED <<status, errmsg>>
          ELSE /\ Abort("stackguard_before == stackguard_after")
               /\ UNCHANGED <<ostack, trace>>
    /\ retval' = 0
    /\ Did("rirCallClosure_return")
    /\ UNCHANGED <<heap, funs, jmp, R_Visible, R_ReturnedValue, warnings>>

(***************************************************************************)
(* call_stack_: doCallStack and createArgsListStack.                       *)
(***************************************************************************)
\* "If the target is an ast, we need to wrap it in a quote"
quoted(h, v) ==
    IF h[v].type \in {"LANGSXP", "SYMSXP"} THEN Call1("quote", Const(v))
    ELSE Const(v)

IsGetterCall(call) ==
    Len(call.args) > 0 /\ IsSym(call.args[1].val, "*getter*")

IsSetterCall(call) ==
    Len(call.args) > 0 /\ IsSym(call.args[1].val, "*setter*")

\* doCallStack: the copy of the call with the target in the first argument
\* and, for a setter, the value (the top of the stack st) in the last.
filledCall(h, call, st, nargs) ==
    LET target == escape(h, StackAt(st, nargs - 1))
        a1 == [call.args EXCEPT ![1].val = quoted(h, target)]
    IN IF IsSetterCall(call)
       THEN [call EXCEPT !.args =
                [a1 EXCEPT ![Len(a1)] =
                    [tag |-> "value", val |-> quoted(h, escape(h, Peek(st)))]]]
       ELSE [call EXCEPT !.args = a1]

\* A doCallStack that fills the placeholders in without copying the call.
poolCall_shared(call, filled) == filled

\* The call left in the source pool: the placeholders are filled in a
\* shallow duplicate, the call of the pool is not written.
poolCall(call, filled) == call

ins_call_stack_ ==
    /\ At("call_stack_")
    /\ LET nargs == CurIns.imm.nargs
           call == CurIns.ast
           base == [cstack EXCEPT ![Len(cstack)].pc = @ + 1]
       IN IF call.t = "NONE" \/ nargs >= Len(ostack)
          THEN /\ Abort("sidx")
               /\ UNCHANGED <<heap, funs, ostack, jmp, R_Visible,
                              R_ReturnedValue, trace>>
          ELSE LET callee == StackAt(ostack, nargs)
                   fill == /\ TYPEOF(callee) \in {"SPECIALSXP", "CLOSXP"}
                           /\ IsGetterCall(call) \/ IsSetterCall(call)
                   filled == IF fill THEN filledCall(heap, call, ostack, nargs)
                             ELSE call
                   h == IF fill /\ IsSetterCall(call)
                        THEN IncrementNamed(heap, escape(heap, Peek(ostack)))
                        ELSE heap
                   st == SubSeq(ostack, 1, Len(ostack) - nargs - 1)
                   flag == getFlag(callee)
               IN /\ funs' = [funs EXCEPT
                                 ![TopFrame.fn].codes[TopFrame.ci].code[TopFrame.pc].ast =
                                     IF fill THEN poolCall(call, filled) ELSE call]
                  /\ CASE fill /\ IsSetterCall(call)
                             /\ ~IsSym(call.args[Len(call.args)].val, "*setter*") ->
                            /\ Abort("CAR(a) == setterPlaceholderSym")
                            /\ UNCHANGED <<heap, ostack, jmp, R_Visible,
                                           R_ReturnedValue, trace>>
                       [] TYPEOF(callee) = "SPECIALSXP" ->
                            /\ HostSpecialModelled(heap[callee].x.name, filled, curEnv)
                            /\ heap' = h
                            /\ Outcome(hostSpecial(heap[callee].x.name, filled, curEnv),
                                       base, st,
                                       visibleAfter(flag,
                                           specialVisible(heap[callee].x.name, flag)),
                                       Append(trace, Event("special", callee, 0)))
                       [] TYPEOF(callee) \in {"BUILTINSXP", "CLOSXP"} ->
                            /\ heap' = h
                            /\ cstack' = Append(base,
                                   [k |-> "createArgsListStack", callee |-> callee,
                                    call |-> filled, nargs |-> nargs,
                                    names |-> CurIns.imm.names, env |-> curEnv,
                                    eager |-> TYPEOF(callee) = "BUILTINSXP",
                                    i |-> 1, j |-> 0, result |-> <<>>])
                            /\ UNCHANGED <<ostack, jmp, R_GlobalContext, R_Visible,
                                           R_ReturnedValue, status, errmsg, trace>>
                       [] OTHER ->
                            /\ Abort("Don't know how to run other stuff")
                            /\ UNCHANGED <<heap, ostack, jmp, R_Visible,
                                           R_ReturnedValue, trace>>
    /\ Did("call_stack_")
    /\ UNCHANGED <<retval, warnings>>

InStackArgs ==
    /\ Running /\ jmp = 0
    /\ TopFrame.k = "createArgsListStack"

\* One turn of the loop of createArgsListStack: argbase[i] is read from
\* the stack, which keeps the callee and the arguments until the list is
\* built.
createArgsListStack_loop ==
    /\ InStackArgs /\ retval = 0
    /\ TopFrame.i <= TopFrame.nargs
    /\ LET fr == TopFrame
           arg == StackAt(ostack, fr.nargs - fr.i)
           name == fr.names[fr.i]
           next(res) == [cstack EXCEPT ![Len(cstack)].i = @ + 1,
                                       ![Len(cstack)].result = res]
       IN CASE arg = R_DotsSymbolAddr -> flattenEllipsis(fr, name)
            [] arg = R_MissingArg ->
                 IF fr.eager
                 THEN /\ Raise("argument is empty")
                      /\ UNCHANGED <<heap, R_Visible, trace>>
                 ELSE /\ cstack' = next(listAppend(fr.result, R_MissingArg, ""))
                      /\ UNCHANGED <<heap, R_Visible, R_GlobalContext, status,
                                     errmsg, trace>>
            [] arg \notin {R_MissingArg, R_DotsSymbolAddr} /\ fr.eager
                  /\ TYPEOF(arg) = "PROMSXP" /\ ~promiseHasValue(arg) ->
                 \* rirEval(arg, env) forces the promise
                 /\ cstack' = cstack \o
                        <<[k |-> "rirEval", prom |-> arg],
                          EvalFrame(heap[arg].x.fn, heap[arg].x.ci,
                                    heap[arg].x.env, Len(ostack))>>
                 /\ R_Visible' = TRUE
                 /\ trace' = trace \o <<Event("force", arg, 0),
                                        Event("eval", heap[arg].x.fn, heap[arg].x.ci)>>
                 /\ UNCHANGED <<heap, R_GlobalContext, status, errmsg>>
            [] arg \notin {R_MissingArg, R_DotsSymbolAddr} /\ fr.eager
                  /\ TYPEOF(arg) = "PROMSXP" /\ promiseHasValue(arg) ->
                 /\ cstack' = next(listAppend(fr.result, PRVALUE(arg), name))
                 /\ R_Visible' = TRUE
                 /\ trace' = Append(trace, Event("value", arg, PRVALUE(arg)))
                 /\ UNCHANGED <<heap, R_GlobalContext, status, errmsg>>
            [] OTHER ->
                 /\ cstack' = next(listAppend(fr.result, escape(heap, arg), name))
                 /\ UNCHANGED <<heap, R_Visible, R_GlobalContext, status,
                                errmsg, trace>>
    /\ Did("createArgsListStack")
    /\ UNCHANGED <<funs, ostack, retval, jmp, R_ReturnedValue, warnings>>

\* rirEval of a promise returns: the promise gets its value, which goes
\* back to createArgsListStack.
rirEval_return ==
    /\ Running /\ jmp = 0 /\ retval # 0
    /\ TopFrame.k = "rirEval"
    /\ LET p == TopFrame.prom
           val == escape(heap, retval)
       IN /\ heap' = SetNamed([heap EXCEPT ![p].x.value = val,
                                           ![p].x.env = R_NilValue], val, 2)
          /\ retval' = val
          /\ trace' = Append(trace, Event("forced", p, val))
    /\ cstack' = Pop(cstack)
    /\ Did("rirEval")
    /\ UNCHANGED <<funs, ostack, jmp, R_GlobalContext, R_Visible,
                   R_ReturnedValue, status, errmsg, warnings>>

\* createArgsListStack gets the value of a promise it has forced.
createArgsListStack_arg ==
    /\ InStackArgs /\ retval # 0
    /\ IF StackAt(ostack, TopFrame.nargs - TopFrame.i) = R_DotsSymbolAddr
       THEN cstack' = [cstack EXCEPT
                          ![Len(cstack)].j = @ + 1,
                          ![Len(cstack)].result =
                              listAppend(@, retval,
                                  dotsTag(heap[findVar("...", TopFrame.env)].x.list[TopFrame.j + 1],
                                          TopFrame.names[TopFrame.i]))]
       ELSE cstack' = [cstack EXCEPT
                          ![Len(cstack)].i = @ + 1,
                          ![Len(cstack)].result =
                              listAppend(@, escape(heap, retval),
                                         TopFrame.names[TopFrame.i])]
    /\ retval' = 0
    /\ Did("createArgsListStack_arg")
    /\ UNCHANGED <<heap, funs, ostack, jmp, R_GlobalContext, R_Visible,
                   R_ReturnedValue, status, errmsg, warnings, trace>>

StackArgsDone ==
    InStackArgs /\ retval = 0 /\ TopFrame.i > TopFrame.nargs

\* The stack once doCallStack has popped the arguments and the callee.
calleePopped(st, nargs) == SubSeq(st, 1, Len(st) - nargs - 1)

\* doCallStack, case BUILTINSXP, once the argument list is built.
doCallStack_builtin ==
    /\ StackArgsDone
    /\ TYPEOF(TopFrame.callee) = "BUILTINSXP"
    /\ LET fr == TopFrame
           flag == getFlag(fr.callee)
       IN Outcome(hostBuiltin(heap[fr.callee].x.name, fr.result), Pop(cstack),
                  calleePopped(ostack, fr.nargs),
                  visibleAfter(flag, R_Visible),
                  Append(trace, Event("builtin", fr.callee, Len(fr.result))))
    /\ heap' = hostHeap(heap[TopFrame.callee].x.name)
    /\ Did("doCallStack_builtin")
    /\ UNCHANGED <<funs, retval, warnings>>

\* doCallStack, case CLOSXP, once the argument list is built.
doCallStack_closure ==
    /\ StackArgsDone
    /\ TYPEOF(TopFrame.callee) = "CLOSXP"
    /\ rirCallClosure(TopFrame.callee, TopFrame.result,
                      calleePopped(ostack, TopFrame.nargs), Pop(cstack),
                      "doCallStack")
    /\ Did("doCallStack_closure")
    /\ UNCHANGED <<funs, retval, jmp, R_ReturnedValue, warnings>>

(***************************************************************************)
(* ret_ and the entry points.                                              *)
(***************************************************************************)
\* A ret_ that leaves the result on the stack.
evalDone_keep(st) == st

\* __eval_done: return ostack_pop(ctx)
evalDone(st) == Pop(st)

ins_ret_ ==
    /\ At("ret_")
    /\ retval' = Peek(ostack)
    /\ ostack' = evalDone(ostack)
    /\ cstack' = Pop(cstack)
    /\ Did("ret_")
    /\ UNCHANGED <<heap, funs, jmp, R_GlobalContext, R_Visible, R_ReturnedValue,
                   status, errmsg, warnings, trace>>

(***************************************************************************)
(* rirEval(e, env) as the host calls it.  The frame of the call holds e    *)
(* and env.  The cases of the switch the model enters are the self-        *)
(* evaluating types, a Function object, a call, a symbol bound to a value   *)
(* or not at all, and the dots.                                            *)
(***************************************************************************)
isValidFunctionSEXP(e) == TYPEOF(e) = "INTSXP" /\ "fn" \in DOMAIN heap[e].x

SelfEvaluating ==
    {"INTSXP", "NILSXP", "LISTSXP", "LGLSXP", "REALSXP", "STRSXP", "CPLXSXP",
     "RAWSXP", "S4SXP", "SPECIALSXP", "BUILTINSXP", "ENVSXP", "CLOSXP",
     "VECSXP", "EXTPTRSXP", "WEAKREFSXP", "EXPRSXP"}

\* A constant that keeps the named indicator it came with.
constNamed_keep(h, e) == h

\* if (NAMED(e) <= 1) SET_NAMED(e, 2)
constNamed(h, e) == IF h[e].named <= 1 THEN SetNamed(h, e, 2) ELSE h

\* evalRirCode(functionCode(ff), globalContext(), env, 0) under escape
runFunction(fn, entry, env) ==
    /\ cstack' = <<[k |-> "rirEval_f"], EvalFrame(fn, entry, env, 0)>>
    /\ trace' = Append(trace, Event("eval", fn, entry))
    /\ UNCHANGED <<retval, status, errmsg, R_GlobalContext>>

rirEval_enter ==
    /\ Running /\ jmp = 0 /\ retval = 0
    /\ TopFrame.k = "rirEval_enter"
    /\ R_Visible' = TRUE
    /\ LET e == TopFrame.e
           env == TopFrame.env
       IN CASE isValidFunctionSEXP(e) ->
                 /\ runFunction(heap[e].x.fn, funs[heap[e].x.fn].entry, env)
                 /\ UNCHANGED <<heap, funs>>
            [] ~isValidFunctionSEXP(e) /\ TYPEOF(e) \in SelfEvaluating ->
                 /\ heap' = constNamed(heap, e)
                 /\ retval' = e
                 /\ status' = "done"
                 /\ cstack' = <<>>
                 /\ UNCHANGED <<funs, errmsg, R_GlobalContext, trace>>
            [] TYPEOF(e) = "LANGSXP" ->
                 /\ funs' = Append(funs, compile(heap[e].x.ast))
                 /\ heap' = markConsts(heap, compile(heap[e].x.ast).consts)
                 /\ runFunction(Len(funs) + 1, compile(heap[e].x.ast).entry, env)
            [] TYPEOF(e) = "SYMSXP" /\ heap[e].x.name = "..." ->
                 /\ Raise("'...' used in an incorrect context")
                 /\ UNCHANGED <<heap, funs, retval, trace>>
            [] TYPEOF(e) = "SYMSXP" /\ heap[e].x.name # "..." ->
                 LET val == findVar(heap[e].x.name, env)
                 IN IF val = R_UnboundValue
                    THEN /\ Raise("object not found")
                         /\ UNCHANGED <<heap, funs, retval, trace>>
                    ELSE /\ TYPEOF(val) # "PROMSXP" /\ val # R_MissingArg
                         /\ heap' = NameIfFresh(heap, val)
                         /\ retval' = val
                         /\ status' = "done"
                         /\ cstack' = <<>>
                         /\ UNCHANGED <<funs, errmsg, R_GlobalContext, trace>>
            [] TYPEOF(e) = "DOTSXP" ->
                 /\ Raise("'...' used in an incorrect context")
                 /\ UNCHANGED <<heap, funs, retval, trace>>
    /\ Did("rirEval_enter")
    /\ UNCHANGED <<ostack, jmp, R_ReturnedValue, warnings>>

\* rirEval_f: escape(evalRirCode(...)) is the result of the run.
rirEval_f_return ==
    /\ Running /\ jmp = 0 /\ retval # 0
    /\ TopFrame.k = "rirEval_f"
    /\ retval' = escape(heap, retval)
    /\ status' = "done"
    /\ cstack' = <<>>
    /\ Did("rirEval_f")
    /\ UNCHANGED <<heap, funs, ostack, jmp, R_GlobalContext, R_Visible,
                   R_ReturnedValue, errmsg, warnings, trace>>

(***************************************************************************)
(* Promises as stack values: promise_ and force_.                          *)
(***************************************************************************)
ins_promise_ ==
    /\ At("promise_")
    /\ heap' = Append(heap, mkPROMISE(TopFrame.fn, CurIns.imm, curEnv))
    /\ ostack' = Append(ostack, Len(heap) + 1)
    /\ trace' = Append(trace, Event("promise", Len(heap) + 1, CurIns.imm))
    /\ Advance
    /\ Did("promise_")
    /\ UNCHANGED <<funs, retval, jmp, R_GlobalContext, R_Visible,
                   R_ReturnedValue, status, errmsg, warnings>>

ins_force_ ==
    /\ At("force_")
    /\ LET p == Peek(ostack)
       IN CASE TYPEOF(p) # "PROMSXP" ->
                 /\ Abort("TYPEOF(p) == PROMSXP")
                 /\ ostack' = Pop(ostack)
                 /\ UNCHANGED <<heap, trace>>
            [] TYPEOF(p) = "PROMSXP" /\ promiseHasValue(p) ->
                 /\ heap' = SetNamed(heap, PRVALUE(p), 2)
                 /\ ostack' = Append(Pop(ostack), PRVALUE(p))
                 /\ Advance
                 /\ trace' = Append(trace, Event("value", p, PRVALUE(p)))
                 /\ UNCHANGED <<status, errmsg, R_GlobalContext>>
            [] OTHER ->
                 /\ ostack' = Pop(ostack)
                 /\ cstack' = [cstack EXCEPT ![Len(cstack)].pc = @ + 1]
                        \o <<[k |-> "forcePromise", prom |-> p],
                             EvalFrame(heap[p].x.fn, heap[p].x.ci,
                                       heap[p].x.env, Len(ostack) - 1)>>
                 /\ trace' = trace \o <<Event("force", p, 0),
                                        Event("eval", heap[p].x.fn, heap[p].x.ci)>>
                 /\ UNCHANGED <<heap, status, errmsg, R_GlobalContext>>
    /\ Did("force_")
    /\ UNCHANGED <<funs, retval, jmp, R_Visible, R_ReturnedValue, warnings>>

\* The instructions of all the code objects of fn.
allIns(fn) ==
    UNION {{fn.codes[c].code[i] : i \in 1..Len(fn.codes[c].code)} :
           c \in 1..Len(fn.codes)}

\* The entries of the constant pool that fn has put there, each written as
\* the AST it is: the constants of push_, the symbols of the loads and
\* stores, the call ASTs of the call instructions.
cp_pool(fn) ==
    {Const(ins.imm) : ins \in {j \in allIns(fn) : j.op = "push_"}}
    \cup {Sym(ins.imm) :
             ins \in {j \in allIns(fn) : j.op \in {"ldvar_", "stvar_", "ldfun_"}}}
    \cup {ins.ast : ins \in {j \in allIns(fn) : j.ast.t = "LANGSXP"}}

\* A source-pool read of key c.src in the source pool gives the source of c.
src_pool_at(fn, ci) == {fn.codes[ci].src}

\* asast_ reads the constant pool at the key c.src, which is a key of the
\* source pool: the entry found there is whatever the constant pool holds
\* under that number, any one of its entries.
cp_pool_at_src(fn, ci) == cp_pool(fn)

\* An AST as a value: a constant is the value itself, a symbol or a call is
\* a cell of the heap h, at address a when it is new.
astValue(ast, a) == IF ast.t = "CONST" THEN ast.a ELSE a

astHeap(h, ast) ==
    IF ast.t = "CONST" THEN h ELSE Append(h, mkSEXP(ast.t, <<>>, [ast |-> ast]))

\* push_code_: the code object itself is pushed, not a promise.
ins_push_code_ ==
    /\ At("push_code_")
    /\ \E ast \in src_pool_at(funs[TopFrame.fn], CurIns.imm) : \E obj \in BOOLEAN :
          LET h1 == astHeap(heap, ast)
          IN /\ heap' = Append(h1, mkCode(TopFrame.fn, CurIns.imm,
                                          astValue(ast, Len(heap) + 1), obj))
             /\ ostack' = Append(ostack, Len(h1) + 1)
    /\ Advance
    /\ Did("push_code_")
    /\ UNCHANGED <<funs, retval, jmp, R_GlobalContext, R_Visible,
                   R_ReturnedValue, status, errmsg, warnings, trace>>

ins_asast_ ==
    /\ At("asast_")
    /\ LET p == Peek(ostack)
       IN IF TYPEOF(p) # "PROMSXP"
          THEN /\ Abort("TYPEOF(p) == PROMSXP")
               /\ ostack' = Pop(ostack)
               /\ UNCHANGED heap
          ELSE \E ast \in cp_pool_at_src(funs[heap[p].x.fn], heap[p].x.ci) :
                  /\ heap' = astHeap(heap, ast)
                  /\ ostack' = Append(Pop(ostack), astValue(ast, Len(heap) + 1))
                  /\ Advance
                  /\ UNCHANGED <<status, errmsg, R_GlobalContext>>
    /\ Did("asast_")
    /\ UNCHANGED <<funs, retval, jmp, R_Visible, R_ReturnedValue, warnings,
                   trace>>

(***************************************************************************)
(* extract1_: the fast path for a scalar index, and the generic `[[`.      *)
(***************************************************************************)
\* The number of an SEXPTYPE.
SEXPTYPE(t) ==
    CASE t = "NILSXP" -> 0 [] t = "SYMSXP" -> 1 [] t = "LISTSXP" -> 2
      [] t = "CLOSXP" -> 3 [] t = "ENVSXP" -> 4 [] t = "PROMSXP" -> 5
      [] t = "LANGSXP" -> 6 [] t = "SPECIALSXP" -> 7 [] t = "BUILTINSXP" -> 8
      [] t = "LGLSXP" -> 10 [] t = "INTSXP" -> 13 [] t = "REALSXP" -> 14
      [] t = "STRSXP" -> 16 [] t = "DOTSXP" -> 17 [] t = "VECSXP" -> 19
      [] t = "CODE" -> 31
      [] OTHER -> 24

\* The width of the type field of an SEXP and of the int of the build.
TypeBits == 5

IntBits == 32

\* A 32-bit pattern is the set of the positions of its one bits.
Bits(v) == {b \in 0..(TypeBits - 1) : (v \div 2 ^ b) % 2 = 1}

\* v << s as a number: every bit s places up.
shl(v, s) == {b + s : b \in Bits(v)}

\* v << s as the machine shifts: the count taken modulo the width, the
\* bits beyond the width lost.
shlWrapped(v, s) == {b \in shl(v, s % IntBits) : b < IntBits}

\* "vectype << 5 + idxtype" for the numbers of two types: + binds tighter
\* than <<, the shift is by 5 + idxtype, in int.  The shift is undefined
\* when the result is no int (a bit reaches the sign, or the count is the
\* width or more): the build has wrapped, or has shifted everything out.
\* The set of the keys the build can produce.
typeKey(vectype, idxtype) ==
    IF \A b \in shl(vectype, 5 + idxtype) : b < IntBits - 1
    THEN {shl(vectype, 5 + idxtype)}
    ELSE {shlWrapped(vectype, 5 + idxtype), {}}

\* The SIMPLECASEs of the switch.
SimpleTypes == {"REALSXP", "INTSXP", "LGLSXP"}

SimpleCases == {<<v, i>> : v \in SimpleTypes, i \in SimpleTypes}

\* The label of a case: the same expression on the types of the case.
caseKey(c) == shl(SEXPTYPE(c[1]), 5 + SEXPTYPE(c[2]))

\* The cases the switch selects for the key.
casesOf(key) == {c \in SimpleCases : caseKey(c) = key}

\* The cases the switch selects for val and idx.
selectedCase(val, idx) ==
    UNION {casesOf(k) : k \in typeKey(SEXPTYPE(TYPEOF(val)), SEXPTYPE(TYPEOF(idx)))}

\* A guard that takes an index of any type for one of the type of the case.
isType_any(tag, t) == TRUE

\* The type test of IS_SIMPLE_SCALAR, on the number of the type.
isType(tag, t) == tag = SEXPTYPE(t)

hasNames(a) == "names" \in DOMAIN heap[a].x

\* IS_SIMPLE_SCALAR: the type, length one, no attributes.
IS_SIMPLE_SCALAR(a, t) ==
    /\ isType(SEXPTYPE(TYPEOF(a)), t)
    /\ Len(heap[a].v) = 1
    /\ ~isObject(a)
    /\ ~hasNames(a)

\* An extract1_ that takes every index for one inside the vector.
outOfRange_never(len, i) == FALSE

\* "if (Rf_length(val) <= i) goto fallback"
outOfRange(len, i) == len <= i

\* vecaccess(val)[i]: a read outside the vector is undefined, it gives
\* whatever the memory holds.
Garbage == {0, NA_LOGICAL}

readAt(val, i) ==
    IF i >= 0 /\ i < Len(heap[val].v) THEN {heap[val].v[i + 1]} ELSE Garbage

\* "(int)idxaccess(idx)[0] - 1" in the 32-bit int of the build.  For the
\* smallest int (the NA of an integer or logical index) the subtraction
\* overflows, which is undefined: the result has wrapped to the largest
\* int, or the comparison with the length takes it for the number one less
\* (which is below zero like the smallest int, that stands for it here).
indexInt(x) == IF x = NA_LOGICAL THEN {2147483647, NA_LOGICAL} ELSE {x - 1}

\* the values i can have for the index idx (0 when idx has no first
\* element to read: no case goes that far)
indexChoices(idx) ==
    IF TYPEOF(idx) \in SimpleTypes /\ Len(heap[idx].v) >= 1
    THEN indexInt(heap[idx].v[1]) ELSE {0}

\* The fast path is taken: a case is selected, val has no names, idx is a
\* simple scalar of the type of the case, and i is not beyond the length.
fastPath(val, idx, i) ==
    \E c \in selectedCase(val, idx) :
       /\ ~hasNames(val)
       /\ IS_SIMPLE_SCALAR(idx, c[2])
       /\ ~outOfRange(Rf_length(val), i)

\* do_subset2_dflt on val and idx: the element as a value (address 0: a
\* fresh vector holding elem), or the error of the host.
do_subset2_dflt(val, idx) ==
    CASE TYPEOF(val) = "NILSXP" -> [msg |-> "", addr |-> R_NilValue, elem |-> 0]
      [] TYPEOF(val) # "NILSXP" /\ ~IsVectorType(TYPEOF(val)) ->
           [msg |-> "object is not subsettable", addr |-> 0, elem |-> 0]
      [] IsVectorType(TYPEOF(val)) /\ ~IsVectorType(TYPEOF(idx)) ->
           [msg |-> "invalid subscript type", addr |-> 0, elem |-> 0]
      [] IsVectorType(TYPEOF(val)) /\ IsVectorType(TYPEOF(idx))
            /\ Len(heap[idx].v) # 1 ->
           [msg |-> "attempt to select less or more than one element",
            addr |-> 0, elem |-> 0]
      [] OTHER ->
           LET i == heap[idx].v[1]
           IN IF TYPEOF(idx) \in {"STRSXP", "VECSXP"}
              THEN [msg |-> "subscript out of bounds", addr |-> 0, elem |-> 0]
              ELSE IF i < 1
              THEN [msg |-> "attempt to select less than one element",
                    addr |-> 0, elem |-> 0]
              ELSE IF i > Len(heap[val].v)
              THEN [msg |-> "subscript out of bounds", addr |-> 0, elem |-> 0]
              ELSE IF TYPEOF(val) = "VECSXP"
              THEN [msg |-> "", addr |-> heap[val].v[i], elem |-> 0]
              ELSE [msg |-> "", addr |-> 0, elem |-> heap[val].v[i]]

ins_extract1_ ==
    /\ At("extract1_")
    /\ LET idx == Peek(ostack)
           val == Peek(Pop(ostack))
           st == Pop(Pop(ostack))
           fresh == Len(heap) + 1
       IN \E i \in indexChoices(idx) :
            /\ IF fastPath(val, idx, i)
               THEN \E e \in readAt(val, i) :
                       /\ IF IS_SIMPLE_SCALAR(val, TYPEOF(val)) /\ ~MAYBE_SHARED(val)
                          THEN /\ heap' = [heap EXCEPT ![val].v = <<e>>]
                               /\ ostack' = Append(st, val)
                          ELSE /\ heap' = Append(heap, mkVec(TYPEOF(val), <<e>>))
                               /\ ostack' = Append(st, fresh)
                       /\ Advance
                       /\ UNCHANGED <<status, errmsg, R_GlobalContext>>
               ELSE IF CurIns.ast.t = "NONE"
               THEN \* getSrcForCall: assert(sidx)
                    /\ Abort("sidx")
                    /\ ostack' = st
                    /\ UNCHANGED heap
               ELSE LET r == do_subset2_dflt(val, idx)
                    IN IF r.msg # ""
                       THEN /\ Raise(r.msg)
                            /\ ostack' = st
                            /\ UNCHANGED heap
                       ELSE /\ heap' = IF r.addr # 0 THEN heap
                                       ELSE Append(heap, mkVec(TYPEOF(val), <<r.elem>>))
                            /\ ostack' = Append(st, IF r.addr # 0 THEN r.addr ELSE fresh)
                            /\ Advance
                            /\ UNCHANGED <<status, errmsg, R_GlobalContext>>
            /\ trace' = Append(trace, Event("extract1",
                                            IF fastPath(val, idx, i) THEN 1 ELSE 0, 0))
    /\ R_Visible' = TRUE
    /\ Did("extract1_")
    /\ UNCHANGED <<funs, retval, jmp, R_ReturnedValue, warnings>>

\* do_subset_dflt on val and a scalar index: the vector of the elements
\* selected (an index beyond the length selects NA, zero and FALSE select
\* nothing, TRUE selects all), or the error of the host.
do_subset_dflt(val, idx) ==
    CASE TYPEOF(val) = "NILSXP" -> [msg |-> "", addr |-> R_NilValue, v |-> <<>>]
      [] TYPEOF(val) # "NILSXP" /\ ~IsVectorType(TYPEOF(val)) ->
           [msg |-> "object is not subsettable", addr |-> 0, v |-> <<>>]
      [] IsVectorType(TYPEOF(val))
            /\ (TYPEOF(idx) \notin SimpleTypes \/ Len(heap[idx].v) # 1) ->
           [msg |-> "invalid subscript type", addr |-> 0, v |-> <<>>]
      [] OTHER ->
           LET i == heap[idx].v[1]
               len == Len(heap[val].v)
           IN IF TYPEOF(idx) = "LGLSXP"
              THEN [msg |-> "", addr |-> 0,
                    v |-> IF i = 1 THEN heap[val].v
                          ELSE IF i = 0 THEN <<>>
                          ELSE [j \in 1..len |-> NA_LOGICAL]]
              ELSE IF i < 0
              THEN [msg |-> "", addr |-> 0,
                    v |-> SubSeq(heap[val].v, 1, -i - 1)
                          \o SubSeq(heap[val].v, 1 - i, len)]
              ELSE [msg |-> "", addr |-> 0,
                    v |-> IF i = 0 THEN <<>>
                          ELSE IF i > len THEN <<NA_LOGICAL>>
                          ELSE <<heap[val].v[i]>>]

ins_subset1_ ==
    /\ At("subset1_")
    /\ LET idx == Peek(ostack)
           val == Peek(Pop(ostack))
           st == Pop(Pop(ostack))
           r == do_subset_dflt(val, idx)
       IN IF CurIns.ast.t = "NONE"
          THEN \* getSrcForCall: assert(sidx)
               /\ Abort("sidx")
               /\ ostack' = st
               /\ UNCHANGED heap
          ELSE IF r.msg # ""
          THEN /\ Raise(r.msg)
               /\ ostack' = st
               /\ UNCHANGED heap
          ELSE /\ heap' = IF r.addr # 0 THEN heap
                          ELSE Append(heap, mkVec(TYPEOF(val), r.v))
               /\ ostack' = Append(st, IF r.addr # 0 THEN r.addr ELSE Len(heap) + 1)
               /\ Advance
               /\ UNCHANGED <<status, errmsg, R_GlobalContext>>
    /\ R_Visible' = TRUE
    /\ trace' = Append(trace, Event("subset1", 0, 0))
    /\ Did("subset1_")
    /\ UNCHANGED <<funs, retval, jmp, R_ReturnedValue, warnings>>

(***************************************************************************)
(* dispatch_ and doDispatch.                                               *)
(***************************************************************************)
\* The methods the host knows: the S4 generics, and for a selector and a
\* class the value the method returns (0: no method).
S4Generics == {"[["}

R_has_methods(selector) == selector \in S4Generics

R_possible_dispatch(selector, obj, s4res) ==
    IF heap[obj].x.class \in {"s4m"} THEN s4res ELSE 0

Rf_usemethod(selector, obj, s3res) ==
    IF heap[obj].x.class \in {"s3m", "s4s"} THEN s3res ELSE 0

\* The arguments of `[[` and `[` the host evaluator is modelled for: what
\* hostEval covers, and a call of the builtin c on such arguments.
SubsetCanEval(e, rho) ==
    IF e.t = "LANGSXP"
    THEN /\ IsSym(e.fun, "c") /\ Len(e.args) >= 1
         /\ findFun("c", rho) # 0
         /\ TYPEOF(findFun("c", rho)) = "BUILTINSXP"
         /\ heap[findFun("c", rho)].x.name = "c"
         /\ \A i \in 1..Len(e.args) : HostCanEval(e.args[i].val, rho)
    ELSE HostCanEval(e, rho)

\* eval(e, rho) of the host: the builtin c gives its first argument.
Rf_eval(e, rho) ==
    IF e.t = "LANGSXP" THEN hostEval(e.args[1].val, rho) ELSE hostEval(e, rho)

\* The events of eval(e, rho): the call of a builtin, and the evaluation
\* itself, which names the position of e in the call of the special.
Rf_evalEvents(e, rho, pos, selector) ==
    (IF e.t = "LANGSXP"
     THEN <<Event("builtin", findFun(e.fun.s, rho), Len(e.args))>> ELSE <<>>)
    \o <<EventS("Rf_eval", pos, Rf_eval(e, rho), selector)>>

\* "call it with the AST only": do_subset2 and do_subset get CDR(call) and
\* evaluate the object and the index of the call themselves.
specialArgs(call, rho, selector) ==
    Rf_evalEvents(call.args[1].val, rho, 1, selector)
    \o Rf_evalEvents(call.args[2].val, rho, 2, selector)

\* do_subset2 / do_subset on an object without a method: the element at the
\* constant index of the call, as a fresh vector (0: out of bounds).
hostSubset(obj, call) ==
    LET i == heap[call.args[2].val.a].v[1]
    IN IF i >= 1 /\ i <= Len(heap[obj].v)
       THEN mkVec(heap[obj].type, <<heap[obj].v[i]>>)
       ELSE mkVec("NILSXP", <<>>)

ins_dispatch_ ==
    /\ At("dispatch_")
    /\ LET obj == Peek(ostack)
           base == [cstack EXCEPT ![Len(cstack)].pc = @ + 1]
       IN IF isObject(obj)
          THEN /\ cstack' = Append(base,
                     ArgsFrame("doDispatch", CurIns.imm.selector, obj,
                               CurIns.ast, CurIns, curEnv, TopFrame.fn, FALSE))
               /\ UNCHANGED <<status, errmsg, R_GlobalContext>>
          ELSE Abort("isObject(obj)")
    /\ ostack' = Pop(ostack)
    /\ Did("dispatch_")
    /\ UNCHANGED <<heap, funs, retval, jmp, R_Visible, R_ReturnedValue,
                   warnings, trace>>

\* A doDispatch that attempts S4 dispatch whatever the object and selector.
dispatchAttempts_S4always(selector, obj, callee, s4res, s3res, funres) ==
    LET s4 == <<EventS("S4", R_possible_dispatch(selector, obj, s4res), obj, selector)>>
        s3 == IF s4[1].a # 0 THEN <<>>
              ELSE <<EventS("S3", Rf_usemethod(selector, obj, s3res), obj, selector)>>
        fn == IF s4[1].a # 0 \/ s3[1].a # 0 THEN <<>>
              ELSE <<EventS("findFun", funres, obj, selector)>>
    IN s4 \o s3 \o fn

\* The mechanisms doDispatch attempts, in the order it attempts them, each
\* with its result (0: did not succeed).
dispatchAttempts(selector, obj, callee, s4res, s3res, funres) ==
    LET s4 == IF IS_S4_OBJECT(obj) /\ R_has_methods(selector)
              THEN <<EventS("S4", R_possible_dispatch(selector, obj, s4res), obj, selector)>>
              ELSE <<>>
        s4ok == Len(s4) > 0 /\ s4[1].a # 0
        s3 == IF s4ok THEN <<>>
              ELSE <<EventS("S3", Rf_usemethod(selector, obj, s3res), obj, selector)>>
        s3ok == Len(s3) > 0 /\ s3[1].a # 0
        fn == IF s4ok \/ s3ok THEN <<>>
              ELSE <<EventS("findFun", funres, obj, selector)>>
    IN s4 \o s3 \o fn

\* doDispatch once the promise list is built.  The callee of the ordinary
\* call is the special of the selector.
doDispatch ==
    /\ ArgsDone /\ TopFrame.for = "doDispatch"
    /\ Len(TopFrame.result) >= 1
    /\ LET fr == TopFrame
           obj == fr.callee
           callee == findFun(fr.selector, fr.env)
           first == fr.result[1].val
           h1 == IF TYPEOF(first) = "PROMSXP"
                 THEN [heap EXCEPT ![first].x.value = obj] ELSE heap
           s4res == Len(heap) + 1
           s3res == Len(heap) + 2
           funres == Len(heap) + 3
           sub == hostSubset(Rf_eval(fr.call.args[1].val, fr.env), fr.call)
           asts == specialArgs(fr.call, fr.env, fr.selector)
           tries == dispatchAttempts(fr.selector, obj, callee, s4res, s3res,
                                     IF sub.type = "NILSXP" THEN 0 ELSE funres)
           won == tries[Len(tries)]
       IN /\ callee # 0 /\ TYPEOF(callee) = "SPECIALSXP"
          /\ fr.call.args[2].val.t = "CONST"
          /\ SubsetCanEval(fr.call.args[1].val, fr.env)
          /\ heap' = h1 \o <<mkVec("STRSXP", <<"S4">>), mkVec("STRSXP", <<"S3">>), sub>>
          /\ IF won.a # 0
             THEN Outcome(Value(won.a), Pop(cstack), ostack,
                          IF won.e = "findFun" THEN getFlag(callee) # 1 ELSE R_Visible,
                          trace \o tries
                          \o (IF won.e = "findFun" THEN asts ELSE <<>>))
             ELSE Outcome(Error("subscript out of bounds"), Pop(cstack), ostack,
                          getFlag(callee) # 1, trace \o tries \o asts)
    /\ Did("doDispatch")
    /\ UNCHANGED <<funs, retval, warnings>>

(***************************************************************************)
(* The initial heap: the singletons, the base environment with the         *)
(* primitives, the values the programs use, the closures bound in the      *)
(* global environment.                                                     *)
(***************************************************************************)
Singletons ==
    <<mkVec("NILSXP", <<>>),
      mkVec("LGLSXP", <<1>>),
      mkVec("LGLSXP", <<0>>),
      mkVec("LGLSXP", <<NA_LOGICAL>>),
      mkSEXP("SYMSXP", <<>>, [name |-> "R_UnboundValue"]),
      mkSEXP("SYMSXP", <<>>, [name |-> ""]),
      mkSEXP("SYMSXP", <<>>, [name |-> "R_RestartToken"]),
      mkSEXP("SYMSXP", <<>>, [name |-> "..."])>>

Builtins == <<"c", "stop", "invisible", "is.null", "is.list", "is.pairlist",
              "restart", "k<-">>

Specials == <<"{", "&&", "||", "<-", "[[", "[", "while", "repeat", "break",
              "next", "return", "quote">>

PrimBase == Len(Singletons) + 2

Prims ==
    [i \in 1..Len(Builtins) |-> mkPrim("BUILTINSXP", Builtins[i])]
    \o [i \in 1..Len(Specials) |-> mkPrim("SPECIALSXP", Specials[i])]

PrimAddr(name) ==
    PrimBase + CHOOSE i \in 1..Len(Prims) : Prims[i].x.name = name

BaseFrame ==
    [s \in Syms |->
        IF \E i \in 1..Len(Prims) : Prims[i].x.name = s THEN PrimAddr(s) ELSE 0]

\* The values the programs compute with.
Values ==
    <<mkVec("REALSXP", <<1>>),                  \* 1
      mkVec("INTSXP", <<0>>),                   \* 0L
      mkVec("INTSXP", <<NA_LOGICAL>>),          \* NA_integer_
      mkVec("LGLSXP", <<1, 0>>),                \* c(TRUE, FALSE)
      mkVec("LGLSXP", <<0, 1>>),                \* c(FALSE, TRUE)
      mkVec("LGLSXP", <<NA_LOGICAL, 1>>),       \* c(NA, TRUE)
      mkVec("LGLSXP", <<>>),                    \* logical(0)
      mkVec("STRSXP", <<"abc">>),               \* "abc"
      mkVec("STRSXP", <<"TRUE">>),              \* "TRUE"
      mkVec("VECSXP", <<2>>),                   \* list(TRUE)
      mkVec("REALSXP", <<2, 0>>),               \* c(2, 0)
      mkObj("REALSXP", <<1>>, FALSE, "s3m"),    \* S3 object with a method
      mkObj("REALSXP", <<1>>, FALSE, "s3n"),    \* S3 object without one
      mkObj("REALSXP", <<1>>, TRUE, "s4m"),     \* S4 object with an S4 method
      mkObj("REALSXP", <<1>>, TRUE, "s4s"),     \* S4 object with an S3 method
      mkObj("REALSXP", <<1>>, TRUE, "s4n"),     \* S4 object without methods
      mkSEXP("LISTSXP", <<>>, <<>>),            \* pairlist(1)
      mkVec("REALSXP", <<2>>),                  \* 2
      mkVec("INTSXP", <<3>>),                   \* 3L
      mkSEXP("REALSXP", <<1, 2>>, [names |-> <<"a", "b">>]),   \* c(a = 1, b = 2)
      mkVec("INTSXP", <<-1>>)>>                 \* -1L

ValBase == PrimBase + Len(Prims)

vOne == ValBase + 1
vIntZero == ValBase + 2
vIntNA == ValBase + 3
vTrueFalse == ValBase + 4
vFalseTrue == ValBase + 5
vNATrue == ValBase + 6
vLgl0 == ValBase + 7
vAbc == ValBase + 8
vStrTrue == ValBase + 9
vList == ValBase + 10
vTwoZero == ValBase + 11
vPairlist == ValBase + 17
vTwo == ValBase + 18
vIntThree == ValBase + 19
vNamed == ValBase + 20
vIntNeg == ValBase + 21
Objects == {ValBase + 12, ValBase + 13, ValBase + 14, ValBase + 15, ValBase + 16}

T == Const(R_TrueValue)
F == Const(R_FalseValue)
NA == Const(R_LogicalNAValue)
One == Const(vOne)

\* The closures of the global environment.
\*   f <- function(x, y) 1
\*   g <- function(x, y) x && x
\*   h <- function(x, y) x && return(x)
\*   k <- function(x, y) repeat return(1)
\*   `g<-` <- `c<-` <- function(x, y, value) 0L
\*   `f<-` <- function(x, value) "abc"
\*   d <- function(x, ...) ..1
\*   e <- function(x, ...) ..2
\*   r <- function(x, y) x && restart(x <- FALSE)
\*   w <- function(x, y) while (x) restart(x <- FALSE)
\*   m <- function(x, ...) c(x, ..., TRUE)
\*   n <- function(x, ...) d(x, ..., TRUE)
\*   q <- function(...) m(...)
\*   s <- function(x, ...) g(x, ...) <- TRUE
\*   t <- function(x, ...) k(x, ...) <- TRUE        (`k<-` is a builtin)
Closures ==
    <<mkClosure(<<"x", "y">>, One, R_GlobalEnv),
      mkClosure(<<"x", "y">>, Call2("&&", Sym("x"), Sym("x")), R_GlobalEnv),
      mkClosure(<<"x", "y">>, Call2("&&", Sym("x"), Call1("return", Sym("x"))),
                R_GlobalEnv),
      mkClosure(<<"x", "y">>, Call1("repeat", Call1("return", One)), R_GlobalEnv),
      mkClosure(<<"x", "y", "value">>, Const(vIntZero), R_GlobalEnv),
      mkClosure(<<"x", "value">>, Const(vAbc), R_GlobalEnv),
      mkClosure(<<"x", "...">>, Sym("..1"), R_GlobalEnv),
      mkClosure(<<"x", "...">>, Sym("..2"), R_GlobalEnv),
      mkClosure(<<"x", "y">>,
                Call2("&&", Sym("x"), Call1("restart", Call2("<-", Sym("x"), F))),
                R_GlobalEnv),
      mkClosure(<<"x", "y">>,
                Call2("while", Sym("x"), Call1("restart", Call2("<-", Sym("x"), F))),
                R_GlobalEnv),
      mkClosure(<<"x", "...">>, Call3("c", Sym("x"), R_DotsSymbol, T), R_GlobalEnv),
      mkClosure(<<"x", "...">>, Call3("d", Sym("x"), R_DotsSymbol, T), R_GlobalEnv),
      mkClosure(<<"...">>, Call1("m", R_DotsSymbol), R_GlobalEnv),
      mkClosure(<<"x", "...">>,
                Call2("<-", Call2("g", Sym("x"), R_DotsSymbol), T), R_GlobalEnv),
      mkClosure(<<"x", "...">>,
                Call2("<-", Call2("k", Sym("x"), R_DotsSymbol), T), R_GlobalEnv)>>

CloBase == ValBase + Len(Values)

GlobalFrame(x) ==
    [s \in Syms |->
        CASE s = "x" -> x
          [] s = "f" -> CloBase + 1
          [] s = "g" -> CloBase + 2
          [] s = "h" -> CloBase + 3
          [] s = "k" -> CloBase + 4
          [] s \in {"g<-", "c<-", "h<-"} -> CloBase + 5
          [] s = "f<-" -> CloBase + 6
          [] s = "d" -> CloBase + 7
          [] s = "e" -> CloBase + 8
          [] s = "r" -> CloBase + 9
          [] s = "w" -> CloBase + 10
          [] s = "m" -> CloBase + 11
          [] s = "n" -> CloBase + 12
          [] s = "q" -> CloBase + 13
          [] s = "s" -> CloBase + 14
          [] s = "t" -> CloBase + 15
          [] OTHER -> 0]

\* The heap at the start of a run in which x is bound to the value x
\* (0: x is not bound).
InitHeap(x) ==
    Singletons
    \o <<mkEnv(BaseFrame, 0), mkEnv(GlobalFrame(x), R_BaseEnv)>>
    \o Prims \o Values \o Closures

(***************************************************************************)
(* The programs of the model.  A source program is an AST handed to the    *)
(* compiler together with the values x may be bound to; a bytecode program *)
(* is a Function object written directly.                                  *)
(***************************************************************************)
LglVals == <<R_TrueValue, R_FalseValue, R_LogicalNAValue>>

CondVals ==
    {R_TrueValue, R_FalseValue, R_LogicalNAValue, R_NilValue, vOne, vIntZero,
     vIntNA, vTrueFalse, vFalseTrue, vNATrue, vLgl0, vAbc, vStrTrue, vList,
     vTwoZero, CloBase + 1}

\* The values is_ is applied to.
IsVals == {R_NilValue, R_TrueValue, vOne, vIntZero, vAbc, vList, vPairlist}

Program(ast, xs) == [ast |-> ast, xs |-> xs]

AssignY(v) == Call2("<-", Sym("y"), v)
AssignX(v) == Call2("<-", Sym("x"), v)

Programs ==
    <<Program(Call2("&&", Sym("x"), AssignY(T)), CondVals),
      Program(Call2("||", Sym("x"), AssignY(F)), CondVals),
      Program(Call2("&&", Sym("x"), Call1("stop", One)), {R_TrueValue, R_FalseValue}),
      Program(Call2("||", Sym("x"), Call1("stop", One)), {R_TrueValue, R_FalseValue}),
      Program(Call2("while", Sym("x"), AssignX(F)), CondVals),
      Program(Call1("repeat", Call0("break")), {0}),
      Program(Call2("while", Sym("x"), Call0("next")), {R_TrueValue, R_FalseValue}),
      Program(Call2("while", Sym("x"), Call0("break")), {R_TrueValue}),
      Program(Call1("repeat", Call2("&&", Sym("x"), Call0("break"))),
              {R_TrueValue, R_FalseValue, R_LogicalNAValue}),
      Program(Call2("while", Sym("x"), Call2("||", AssignX(F), Call0("next"))),
              {R_TrueValue}),
      Program(Call1("repeat", Call1("c", Call0("break"))), {0}),
      Program(Call1("repeat", Call2("||", Call1("c", Call0("break")), Call0("break"))),
              {0}),
      Program(Call1("repeat", Call2("[[", Sym("x"), Call0("break"))), {vOne}),
      Program(Call1("quote", Sym("y")), {0}),
      Program(AssignX(Call1("quote", Sym("y"))), {0}),
      Program(Call1("c", Call1("quote", Sym("y"))), {0}),
      Program(Call1("g", Call1("quote", Sym("y"))), {0}),
      Program(Call2("d", T, Call1("quote", Sym("y"))), {0}),
      Program(Call2("<-", Call1("f", Sym("x")), Call1("quote", Sym("y"))), {vOne}),
      Program(Call1("is.null", Call1("quote", Const(R_NilValue))), {0}),
      Program(Call1("is.list", Call1("quote", Sym("x"))), {0}),
      Program(Call2("[[", Call1("quote", Call1("c", Sym("x"))), One), {vOne}),
      Program(Call2("[", Call1("quote", Call1("c", Sym("x"))), One), {vOne}),
      Program(Call2("&&", Call1("quote", T), T), {0}),
      Program(Call2("while", Call1("quote", F), Sym("x")), {vOne}),
      Program(Call1("repeat", Call2("&&", Sym("x"), Call1("c", Call0("break")))),
              {R_TrueValue}),
      Program(Call1("repeat", Call1("g", Call0("break"))), {0}),
      Program(Call1("repeat", Call1("h", Call0("break"))), {0}),
      Program(Call2("while", Sym("x"),
                    Call2("||", AssignX(F), Call1("c", Call0("next")))),
              {R_TrueValue}),
      Program(Call2("while", Sym("x"),
                    Call2("||", AssignX(F), Call1("g", Call0("next")))),
              {R_TrueValue}),
      Program(Call1("f", Call1("stop", One)), {0}),
      Program(Call1("c", Call1("stop", One)), {0}),
      Program(Call2("c", AssignY(T), Sym("x")), {0, R_TrueValue}),
      Program(Call2("c", Sym("x"), AssignY(T)), {0, R_TrueValue}),
      Program(Call2("g", AssignY(T), Call1("stop", One)), {0}),
      Program(Call2("f", AssignY(T), AssignX(T)), {0}),
      Program(Call1("g", Call1("g", Sym("x"))), {R_TrueValue, R_FalseValue, 0}),
      Program(Call1("h", Sym("x")), {R_TrueValue, R_FalseValue, 0}),
      Program(Call1("h", Call1("h", AssignY(T))), {0}),
      Program(Call1("k", One), {0}),
      Program(Call1("c", Call1("k", One)), {0}),
      Program(Call2("f", MissingArgSym, One), {0}),
      Program(Call2("c", One, MissingArgSym), {0}),
      Program(Call2("h", R_DotsSymbol, One), {0}),
      Program(Call0("break"), {0}),
      Program(Call1("return", One), {0}),
      Program(Call2("[[", Sym("x"), One), Objects),
      Program(Call2("[", Sym("x"), One), Objects),
      Program(Call2("[[", Sym("x"), Const(vTwoZero)), Objects),
      Program(Call2("<-", Call2("g", Call1("f", Sym("x")), Sym("y")), T),
              {R_FalseValue, vList}),
      Program(Call2("<-", Str("x"), T), {0, R_FalseValue}),
      Program(Call2("<-", One, T), {0}),
      Program(Call2("r", Sym("x"), T), {R_TrueValue, R_FalseValue}),
      Program(Call2("c", T, Call2("w", Sym("x"), T)), {R_TrueValue}),
      Program(Call1("restart", T), {0}),
      Program(Call2("c", Call2("<-", Sym("&&"), T), Call2("&&", Sym("x"), Sym("x"))),
              {R_TrueValue}),
      Program(Call2("c", Call2("<-", Sym("is.null"), T), Call1("is.null", Sym("x"))),
              {vOne}),
      Program(Call2("<-", Call1("f", One), T), {0}),
      Program(Call2("<-", Call2("g", Call1("f", One), Sym("y")), Sym("x")), {vOne}),
      Program(Call2("<-", Call0("f"), T), {0}),
      Program(Call2("<-", Lang(Call0("f"), <<Arg(Sym("x"))>>), T), {vOne}),
      Program(Call2("c", Call2("<-", Lang(Sym("x"), <<Arg(Call0("f"))>>), T), Sym("y")),
              {0}),
      Program(Call2("<-", Call1("f", Sym("x")), T), {R_FalseValue, vOne}),
      Program(Call2("<-", Call1("f", Call2("c", Sym("x"), Call1("g", Sym("x")))), T),
              {R_TrueValue, R_FalseValue}),
      Program(Call1("repeat", Call2("<-", Call1("f", Sym("x")), T)),
              {R_TrueValue}),
      Program(Call1("is.null", Sym("x")), IsVals),
      Program(Call1("is.list", Sym("x")), IsVals),
      Program(Call1("is.pairlist", Sym("x")), IsVals),
      Program(Call2("<-", Call2("g", Call1("f", Call1("h", Sym("x"))), Sym("y")),
                    Call1("h", Sym("x"))),
              {R_TrueValue}),
      Program(Call1("x", One), {0, vOne, CloBase + 1}),
      Program(Call2("c", Call2("<-", Sym("c"), T), Call1("c", Sym("x"))),
              {R_TrueValue}),
      Program(Call2("d", T, Sym("x")), {0, vOne}),
      Program(Call2("d", T, MissingArgSym), {0}),
      Program(Call2("e", T, Sym("x")), {vOne}),
      Program(Call2("c", Sym("..1"), Sym("x")), {vOne}),
      Program(Call2("g", MissingArgSym, T), {0}),
      Program(Lang(Sym("f"), <<[tag |-> "y", val |-> Call1("g", Sym("x"))],
                               Arg(R_DotsSymbol), Arg(MissingArgSym)>>),
              {R_TrueValue}),
      Program(Call2("[[", Sym("x"), One),
              {vOne, vIntThree, vTrueFalse, vLgl0, vAbc, vList, vNamed, R_NilValue,
               CloBase + 1}),
      Program(Call2("[[", Sym("x"), Const(vTwo)),
              {vOne, vIntThree, vTrueFalse, vTwoZero, vAbc, vNamed}),
      Program(Call2("[[", Sym("x"), Const(vIntThree)),
              {vOne, vTrueFalse, vTwoZero, vNamed}),
      Program(Call2("[[", Sym("x"), Const(vAbc)), {vOne}),
      Program(Call2("[[", Sym("x"), Const(vIntZero)), {vOne, vTwoZero, vTrueFalse}),
      Program(Call2("[[", Sym("x"), Const(vIntNeg)), {vTwoZero}),
      Program(Call2("[[", Sym("x"), F), {vTwoZero, vIntThree}),
      Program(Call2("[[", Sym("x"), NA), {vTwoZero}),
      Program(Call2("[[", Sym("x"), Const(vIntNA)), {vTrueFalse}),
      Program(Call2("[[", Sym("x"), Const(vTwoZero)), {vOne}),
      Program(Call2("[[", Call2("c", Sym("x"), Sym("x")), T), {vOne, vTwo}),
      Program(Call2("[[", Call1("c", Sym("x")), One), Objects \cup {vOne}),
      Program(Call2("[", Call1("c", Sym("x")), One), Objects \cup {vTwoZero}),
      Program(Call2("[", Sym("x"), One),
              {vOne, vTwoZero, vTrueFalse, vLgl0, vNamed, R_NilValue, CloBase + 1}),
      Program(Call2("[", Sym("x"), Const(vIntThree)), {vOne, vTwoZero}),
      Program(Call2("[", Sym("x"), Const(vIntZero)), {vTwoZero}),
      Program(Call2("[", Sym("x"), F), {vTwoZero}),
      Program(Call2("[", Sym("x"), Const(vAbc)), {vOne}),
      Program(Lang(Sym("[["), <<Arg(Sym("x")), [tag |-> "y", val |-> One]>>),
              {vTwoZero}),
      Program(Lang(Sym("m"), <<Arg(F), [tag |-> "y", val |-> Sym("x")], Arg(One)>>),
              {vOne}),
      Program(Call2("m", F, Sym("x")), {0, vOne}),
      Program(Call1("m", F), {0}),
      Program(Call3("m", F, MissingArgSym, One), {0}),
      Program(Lang(Sym("n"), <<Arg(F), [tag |-> "y", val |-> Sym("x")], Arg(One)>>),
              {vOne}),
      Program(Call1("n", F), {0}),
      Program(Lang(Sym("q"), <<Arg(F), [tag |-> "y", val |-> Sym("x")]>>), {vOne}),
      Program(Lang(Sym("s"), <<Arg(F), [tag |-> "y", val |-> Sym("x")]>>), {vOne}),
      Program(Call1("s", F), {0}),
      Program(Lang(Sym("t"), <<Arg(F), [tag |-> "y", val |-> Sym("x")]>>), {vOne}),
      Program(Call3("t", F, Sym("x"), AssignY(T)), {vOne}),
      Program(Call2("g", AssignY(T), Call1("invisible", Sym("x"))), {0, vOne}),
      Program(Call1("invisible", Call1("{", Sym("x"))), {vOne}),
      Program(Call3("c", Call3("e", T, Sym("x"), Sym("x")), Sym("x"), Sym("y")),
              {R_TrueValue})>>

\* push a; push b; lgl_and_ / lgl_or_; ret_
LglProgram(n) ==
    LET a == LglVals[((n - 1) % 3) + 1]
        b == LglVals[(((n - 1) \div 3) % 3) + 1]
        op == IF n > 9 THEN "lgl_or_" ELSE "lgl_and_"
    IN <<I("push_", a), I("push_", b), I(op, 0), I("ret_", 0)>>

\* push v; asbool_; ret_
CondSeq ==
    <<R_TrueValue, R_FalseValue, R_LogicalNAValue, R_NilValue, vOne, vIntZero,
      vIntNA, vTrueFalse, vFalseTrue, vNATrue, vLgl0, vAbc, vStrTrue, vList,
      vTwoZero, CloBase + 1>>

AsboolProgram(n) == <<I("push_", CondSeq[n]), I("asbool_", 0), I("ret_", 0)>>

RawFunction(codes) ==
    [codes |-> [i \in 1..Len(codes) |-> [code |-> codes[i], src |-> NoAst]],
     entry |-> Len(codes), consts |-> {}]

\* A promise for y <- TRUE forced three times from the stack.
ForceProgram ==
    <<compile(AssignY(T)).codes[1].code,
      <<I("promise_", 1), I("dup_", 0), I("force_", 0), I("pop_", 0),
        I("dup_", 0), I("force_", 0), I("pop_", 0), I("force_", 0),
        I("ret_", 0)>>>>

NLgl == 2 * Len(LglVals) * Len(LglVals)
NRaw == NLgl + Len(CondSeq) + 1

RawProgram(n) ==
    IF n <= NLgl THEN RawFunction(<<LglProgram(n)>>)
    ELSE IF n <= NLgl + Len(CondSeq) THEN RawFunction(<<AsboolProgram(n - NLgl)>>)
    ELSE RawFunction(ForceProgram)

\* The code of `y <- TRUE` and of `f(x)`, each made a promise whose AST
\* asast_ takes.
AsastFunction ==
    [codes |-> <<compile(AssignY(T)).codes[1],
                 compile(Call1("f", Sym("x"))).codes[2],
                 [code |-> <<I("promise_", 1), I("asast_", 0), I("pop_", 0),
                             I("promise_", 2), I("asast_", 0), I("ret_", 0)>>,
                  src |-> NoAst]>>,
     entry |-> 3, consts |-> {R_TrueValue}]

\* push a, b, c, d; two of pick_ n / put_ n; ret_
StackVals == <<R_TrueValue, R_FalseValue, R_LogicalNAValue, R_NilValue>>

StackOps ==
    <<<<"pick_", "put_">>, <<"put_", "pick_">>, <<"pick_", "pick_">>,
      <<"put_", "put_">>>>

StackProgram(o, n) ==
    [i \in 1..Len(StackVals) |-> I("push_", StackVals[i])]
    \o <<I(StackOps[o][1], n), I(StackOps[o][2], n)>>
    \o [i \in 1..(Len(StackVals) - 1) |-> I("pop_", 0)]
    \o <<I("ret_", 0)>>

\* ldvar_ x; uniq_; uniq_; uniq_; ret_
UniqProgram ==
    <<I("ldvar_", "x"), I("uniq_", 0), I("uniq_", 0), I("uniq_", 0), I("ret_", 0)>>

\* push shared; uniq_; uniq_; ret_
UniqShared == <<I("push_", R_TrueValue), I("uniq_", 0), I("uniq_", 0), I("ret_", 0)>>

IsTags == <<"NILSXP", "LGLSXP", "REALSXP", "VECSXP", "LISTSXP">>

\* ldvar_ x; is_ tag; ret_
IsProgram(t) == <<I("ldvar_", "x"), I("is_", IsTags[t]), I("ret_", 0)>>

(***************************************************************************)
(* The state machine.                                                      *)
(***************************************************************************)
\* rirEval_f(f, R_GlobalEnv) has just called evalRirCode on the entry code.
InitWith(fn, x) ==
    /\ heap = markConsts(InitHeap(x), fn.consts)
    /\ funs = <<fn>>
    /\ ostack = <<>>
    /\ cstack = <<[k |-> "rirEval_f"], EvalFrame(1, fn.entry, R_GlobalEnv, 0)>>
    /\ retval = 0
    /\ jmp = 0
    /\ R_GlobalContext = 0
    /\ R_Visible = TRUE
    /\ R_ReturnedValue = R_NilValue
    /\ status = "run"
    /\ errmsg = ""
    /\ warnings = <<>>
    /\ trace = <<Event("eval", 1, fn.entry)>>
    /\ last = [op |-> "init", pre |-> <<>>, fr |-> 0, ctx |-> 0,
               heap |-> <<>>, cs |-> <<>>, tr |-> 0, warn |-> <<>>, jmp |-> 0,
               vis |-> TRUE, base |-> 0]
    /\ steps = 0

(***************************************************************************)
(* The stack depth of a code object: the code stream runs the static       *)
(* (pops, pushes) signature of every instruction along the paths of the    *)
(* code and keeps the peak; a branch takes the maximum over its successors. *)
(***************************************************************************)
popCount(ins) ==
    CASE ins.op \in {"push_", "ldvar_", "ldddvar_", "ldfun_", "promise_",
                     "beginloop_", "br_", "isspecial_", "invisible_"} -> 0
      [] ins.op \in {"swap_", "lgl_or_", "lgl_and_", "extract1_"} -> 2
      [] ins.op \in {"put_", "pick_"} -> ins.imm + 1
      [] ins.op = "call_stack_" -> ins.imm.nargs + 1
      [] OTHER -> 1

\* An instruction set in which nothing pushes.
pushCount_none(ins) == 0

pushCount(ins) ==
    CASE ins.op \in {"pop_", "stvar_", "brtrue_", "brfalse_", "endcontext_",
                     "ret_", "br_", "isspecial_", "invisible_"} -> 0
      [] ins.op \in {"dup_", "swap_"} -> 2
      [] ins.op \in {"put_", "pick_"} -> ins.imm + 1
      [] OTHER -> 1

\* The instructions control may reach from pc.
successors(code, pc) ==
    CASE code[pc].op = "ret_" -> {}
      [] code[pc].op = "br_" -> {pc + 1 + code[pc].imm}
      [] code[pc].op \in {"brtrue_", "brfalse_", "brobj_", "beginloop_"} ->
           {pc + 1, pc + 1 + code[pc].imm}
      [] OTHER -> {pc + 1}

heightAfter(ins, h) == h - popCount(ins) + pushCount(ins)

SetMax(S) == CHOOSE m \in S : \A n \in S : n <= m

\* The peak over the paths from pc, entered with height h; seen holds the
\* instructions of the path so far.
RECURSIVE peakFrom(_, _, _, _)
peakFrom(code, pc, h, seen) ==
    IF pc \in seen \/ pc \notin 1..Len(code) THEN h
    ELSE SetMax({h, heightAfter(code[pc], h)}
                \cup {peakFrom(code, s, heightAfter(code[pc], h), seen \cup {pc}) :
                         s \in successors(code, pc)})

stackLength(code) == peakFrom(code, 1, 0, {})

\* "there is some slack of 5": ostack_ensureSize(ctx, c->stackLength + 5)
Slack == 5

\* What the host hands to rirEval besides the values of the heap: a Function
\* object, the symbols x and `...`, the call c(x) and a dots list.
EvalCells ==
    <<mkSEXP("INTSXP", <<>>, [fn |-> 1]),
      mkSEXP("SYMSXP", <<>>, [name |-> "x"]),
      mkSEXP("SYMSXP", <<>>, [name |-> "..."]),
      mkSEXP("LANGSXP", <<>>, [ast |-> Call1("c", Sym("x"))]),
      mkSEXP("DOTSXP", <<>>, [list |-> <<>>])>>

EvalInputs ==
    (1..(Len(InitHeap(0)) + Len(EvalCells)))
       \ {R_UnboundValue, R_MissingArg, R_RestartToken}

\* The host has just called rirEval(e, R_GlobalEnv); the function of the
\* Function object is x.
InitEval(e, x) ==
    /\ heap = InitHeap(x) \o EvalCells
    /\ funs = <<compile(Sym("x"))>>
    /\ ostack = <<>>
    /\ cstack = <<[k |-> "rirEval_enter", e |-> e, env |-> R_GlobalEnv]>>
    /\ retval = 0
    /\ jmp = 0
    /\ R_GlobalContext = 0
    /\ R_Visible \in BOOLEAN
    /\ R_ReturnedValue = R_NilValue
    /\ status = "run"
    /\ errmsg = ""
    /\ warnings = <<>>
    /\ trace = <<>>
    /\ last = [op |-> "init", pre |-> <<>>, fr |-> 0, ctx |-> 0,
               heap |-> <<>>, cs |-> <<>>, tr |-> 0, warn |-> <<>>, jmp |-> 0,
               vis |-> TRUE, base |-> 0]
    /\ steps = 0

Init ==
    \/ \E e \in EvalInputs, x \in {0, vOne} : InitEval(e, x)
    \/ \E p \in 1..Len(Programs) : \E x \in Programs[p].xs :
          InitWith(compile(Programs[p].ast), x)
    \/ \E n \in 1..NRaw : InitWith(RawProgram(n), 0)
    \/ \E o \in 1..Len(StackOps), n \in 0..(Len(StackVals) - 1) :
          InitWith(RawFunction(<<StackProgram(o, n)>>), 0)
    \/ \E x \in {vOne, vList} : InitWith(RawFunction(<<UniqProgram>>), x)
    \/ InitWith(RawFunction(<<UniqShared>>), 0)
    \/ InitWith(AsastFunction, vOne)
    \/ \E t \in 1..Len(IsTags), x \in IsVals :
          InitWith(RawFunction(<<IsProgram(t)>>), x)

Next ==
    \/ ins_push_ \/ ins_pop_ \/ ins_dup_ \/ ins_invisible_
    \/ ins_swap_ \/ ins_put_ \/ ins_pick_ \/ ins_uniq_ \/ ins_is_
    \/ ins_call_stack_ \/ createArgsListStack_loop \/ createArgsListStack_arg
    \/ rirEval_return \/ doCallStack_builtin \/ doCallStack_closure
    \/ ins_aslogical_ \/ ins_lgl_or_ \/ ins_lgl_and_ \/ ins_asbool_
    \/ ins_brobj_ \/ ins_brtrue_ \/ ins_brfalse_ \/ ins_br_
    \/ ins_isspecial_ \/ ins_ldvar_ \/ ins_ldddvar_ \/ ins_stvar_ \/ ins_ldfun_
    \/ ins_promise_ \/ ins_force_ \/ ins_asast_ \/ forcePromise_return
    \/ ins_push_code_
    \/ ins_extract1_ \/ ins_subset1_
    \/ ins_beginloop_ \/ ins_endcontext_ \/ beginloop_SETJMP
    \/ ins_call_ \/ createArgsList_loop \/ createArgsList_arg
    \/ doCall_builtin \/ rirCallClosure_enter \/ rirCallTrampoline_SETJMP
    \/ rirCallClosure_return
    \/ ins_dispatch_ \/ doDispatch
    \/ ins_ret_ \/ rirEval_f_return \/ rirEval_enter

Spec == Init /\ [][Next]_vars

(***************************************************************************)
(* Properties.                                                             *)
(***************************************************************************)
Range(sq) == {sq[i] : i \in 1..Len(sq)}

EventsOf(kind) == {i \in 1..Len(trace) : trace[i].e = kind}

\* C1, as the specification states it: when evalRirCode completes by ret_
\* the value stack is one longer than at entry, the result on top.
C1_StackGrowsByOne ==
    last.op = "ret_" =>
        /\ Len(ostack) = last.base + 1
        /\ Peek(ostack) = Peek(last.pre)

\* C1, as the code has it: when evalRirCode completes by ret_ the result has
\* been popped and is the C return value; the value stack is exactly as long
\* as at entry (the caller pushes the returned value).
C1_ResultReturned ==
    last.op = "ret_" =>
        /\ Len(ostack) = last.base
        /\ ostack = Pop(last.pre)
        /\ retval = Peek(last.pre)

\* A nested evaluation (entered with a stack that is not empty) has
\* completed by ret_.
C1_Witness ==
    /\ last.op = "ret_"
    /\ last.base > 0
    /\ Len(last.pre) = last.base + 1

\* The events that end the context frame c: endcontext_ / endRirContext,
\* or the unwinding of c by a transfer to a frame further out.
EndsOf(c) ==
    {i \in 1..Len(trace) : trace[i].e \in {"endcontext", "unwind"} /\ trace[i].a = c}

\* The context frames that are installed: the chain from R_GlobalContext.
RECURSIVE Chain(_)
Chain(c) == IF c = 0 THEN {} ELSE {c} \cup Chain(heap[c].x.nextcontext)

\* C2: every context frame installed by beginloop_ or by a closure call is
\* ended exactly once on every exit path (fall-through, inlined break/next,
\* non-local break/next/return), and its store is then off the value stack.
C2_FramesEndedOnce ==
    \A i \in EventsOf("begincontext") :
        LET c == trace[i].a
        IN /\ Cardinality(EndsOf(c)) <= 1
           /\ (EndsOf(c) # {} /\ jmp = 0) => c \notin Range(ostack) \cup Chain(R_GlobalContext)
           /\ (last.op = "endcontext_" /\ last.ctx = c) => EndsOf(c) # {}
           /\ status = "done" => EndsOf(c) # {}

\* C3: when a non-local break, next or return is caught at a loop frame or a
\* closure frame, the value stack is cut back to exactly the length of the
\* frame's snapshot, the frame's context store on top.
C3_TruncatedToSnapshot ==
    (/\ last.op \in {"beginloop_SETJMP", "rirCallTrampoline_SETJMP"}
     /\ last.jmp # CTXT_RESTART
     /\ status = "run") =>
        LET store == R_GlobalContext
            sp == heap[store].x.stackPointer
        IN /\ Len(ostack) = sp
           /\ Peek(ostack) = store
           /\ ostack = SubSeq(last.pre, 1, sp)
           /\ TopFrame = [last.cs[heap[store].x.cframe] EXCEPT !.pc = TopFrame.pc]

\* A transfer has been caught with values pushed since the snapshot.
C3_Witness ==
    /\ last.op \in {"beginloop_SETJMP", "rirCallTrampoline_SETJMP"}
    /\ last.jmp # CTXT_RESTART
    /\ status = "run"
    /\ Len(last.pre) > Len(ostack) + 1

\* The events that start the evaluation of the code of promise p.
ForcesOf(p) == {i \in 1..Len(trace) : trace[i].e = "force" /\ trace[i].a = p}

\* The step just taken asked for the value of a promise that had one.
SecondForce ==
    /\ last.op \in {"ldvar_", "force_"}
    /\ Len(trace) = last.tr + 1
    /\ trace[Len(trace)].e = "value"

\* C4: the code of a promise is evaluated at most once; a force of a promise
\* that holds a value returns the value of the first force, runs no code
\* and changes nothing else.
C4_PromiseEvaluatedOnce ==
    /\ \A i \in EventsOf("promise") : Cardinality(ForcesOf(trace[i].a)) <= 1
    /\ \A i \in EventsOf("value") :
           \E j \in 1..(i - 1) : /\ trace[j].e = "forced"
                                 /\ trace[j].a = trace[i].a
                                 /\ trace[j].b = trace[i].b
    /\ SecondForce =>
           /\ Peek(ostack) = trace[Len(trace)].b
           /\ heap = last.heap
           /\ Len(cstack) = last.fr
           /\ status = "run"
           /\ warnings = last.warn

\* A promise that holds a value has been forced again.
C4_Witness ==
    /\ SecondForce
    /\ ForcesOf(trace[Len(trace)].a) # {}

NotDots(a) == a # DOTS_ARG_IDX

\* The place in the trace of the latest evaluation of code ci of function
\* fn (0: it has not been evaluated).
EvalPos(fn, ci) ==
    LET at == {i \in 1..Len(trace) :
                  trace[i].e = "eval" /\ trace[i].a = fn /\ trace[i].b = ci}
    IN IF at = {} THEN 0 ELSE CHOOSE i \in at : \A j \in at : j <= i

\* The argument list under construction in frame fr holds one entry per
\* argument handled so far, in source order: values whose code has been
\* evaluated left to right for a builtin, unforced promises for a closure.
\* The number of entries a `...` slot of the call of fr stands for.
DotsWidth(fr) ==
    LET vl == findVar("...", fr.env)
    IN IF heap[vl].type = "DOTSXP" THEN Len(heap[vl].x.list) ELSE 0

\* The number of entries the slots 1..a of the call of fr stand for.
EntriesUpTo(fr, a) ==
    Cardinality({b \in 1..a : NotDots(fr.args[b])})
        + DotsWidth(fr) * Cardinality({b \in 1..a : ~NotDots(fr.args[b])})

\* The slots of fr that have code of their own, in source order.
CodeSlots(fr, n) == {a \in 1..n : NotDots(fr.args[a])}

ArgsInOrder(fr) ==
    /\ Len(fr.result) = EntriesUpTo(fr, fr.i - 1) + fr.j
    /\ fr.eager = (heap[fr.callee].type = "BUILTINSXP")
    /\ \A a \in CodeSlots(fr, fr.i - 1) :
          LET val == fr.result[EntriesUpTo(fr, a)].val
          IN IF fr.args[a] = MISSING_ARG_IDX THEN val = R_MissingArg
             ELSE IF heap[fr.callee].type = "BUILTINSXP"
             THEN /\ heap[val].type # "PROMSXP"
                  /\ EvalPos(fr.fn, fr.args[a]) > 0
                  /\ \A l \in CodeSlots(fr, a - 1) :
                         EvalPos(fr.fn, fr.args[l]) < EvalPos(fr.fn, fr.args[a])
             ELSE /\ heap[val].type = "PROMSXP"
                  /\ heap[val].x.fn = fr.fn
                  /\ heap[val].x.ci = fr.args[a]
                  /\ heap[val].x.value = R_UnboundValue
                  /\ ForcesOf(val) = {}

\* C5: the argument list of call_ is built in source order; a builtin runs
\* after all its arguments were evaluated left to right; while the list of
\* a closure is built no argument is evaluated, and a promise nobody forces
\* is never evaluated.
C5_ArgumentOrder ==
    /\ \A n \in 1..Len(cstack) :
           (cstack[n].k = "createArgsList" /\ cstack[n].for = "doCall")
               => ArgsInOrder(cstack[n])
    /\ last.op \in {"doCall_builtin", "rirCallClosure"} =>
           LET fr == last.cs[Len(last.cs)]
           IN /\ fr.i = Len(fr.args) + 1
              /\ Len(fr.result) = EntriesUpTo(fr, Len(fr.args))
              /\ last.op = "doCall_builtin" =>
                     \A j \in CodeSlots(fr, Len(fr.args)) :
                         /\ EvalPos(fr.fn, fr.args[j]) > 0
                         /\ EvalPos(fr.fn, fr.args[j]) < Len(trace)
              /\ last.op = "rirCallClosure" =>
                     \A j \in 1..Len(fr.result) :
                         fr.result[j].val # R_MissingArg =>
                             ~promiseHasValue(fr.result[j].val)
    /\ \A i \in EventsOf("promise") :
           (trace[i].s = "doCall" /\ ForcesOf(trace[i].a) = {})
               => ~promiseHasValue(trace[i].a)

\* A closure has returned although the code of its argument raises an
\* error: the argument was passed as a promise and never forced.
C5_Witness ==
    /\ status = "done"
    /\ \E i \in EventsOf("promise") :
           /\ ForcesOf(trace[i].a) = {}
           /\ funs[1].codes[trace[i].b].src = Call1("stop", One)
    /\ retval = vOne

IsAttempt(ev) == ev.e \in {"S4", "S3", "findFun"}

\* The mechanisms the dispatch just done has attempted, in order.
Attempts == SelectSeq(SubSeq(trace, last.tr + 1, Len(trace)), IsAttempt)

\* C6: dispatch_ attempts S4 dispatch (only for an S4 object and a selector
\* with methods), then S3 dispatch, then the ordinary call of the function
\* of the selector; a mechanism is attempted only if all earlier ones did
\* not succeed, and the one that succeeds produces the value pushed.
C6_DispatchOrder ==
    last.op = "doDispatch" =>
        LET fr == last.cs[Len(last.cs)]
            obj == fr.callee
            ev == Attempts
            kinds == [i \in 1..Len(ev) |-> ev[i].e]
        IN /\ kinds \in {<<"S4">>, <<"S3">>, <<"S4", "S3">>, <<"S3", "findFun">>,
                         <<"S4", "S3", "findFun">>}
           /\ (kinds[1] = "S4") <=> (heap[obj].s4 /\ fr.selector \in S4Generics)
           /\ \A i \in 1..(Len(ev) - 1) : ev[i].a = 0
           /\ \A i \in 1..Len(ev) : ev[i].b = obj /\ ev[i].s = fr.selector
           /\ status = "run" =>
                  /\ ev[Len(ev)].a # 0
                  /\ ostack = Append(last.pre, ev[Len(ev)].a)
           /\ status # "run" => ev[Len(ev)].a = 0 /\ ostack = last.pre

\* S4 and S3 dispatch did not succeed and the ordinary call produced the
\* value.
C6_Witness ==
    /\ last.op = "doDispatch"
    /\ status = "run"
    /\ Len(Attempts) = 3
    /\ Attempts[3].e = "findFun"
    /\ Peek(ostack) = Attempts[3].a

IsAndOr(src) ==
    /\ src.t = "LANGSXP"
    /\ src.fun.t = "SYMSXP"
    /\ src.fun.s \in {"&&", "||"}
    /\ Len(src.args) = 2

LglSingletons == {R_TrueValue, R_FalseValue, R_LogicalNAValue}

\* In the code of `a && b` / `a || b`: the branch that jumps over b to the
\* join label, which is where the closing ret_ of the code stands.
ShortBranch(code) ==
    CHOOSE j \in 1..Len(code) :
        /\ code[j].op \in {"brfalse_", "brtrue_"}
        /\ j + 1 + code[j].imm = Len(code)

\* Frame fr is evaluating the operand b.
InOperandB(fr) ==
    LET code == funs[fr.fn].codes[fr.ci].code
    IN fr.pc > ShortBranch(code) /\ fr.pc < Len(code)

\* C7: in compiled `a && b` (`a || b`) the operand b is evaluated only after
\* a has been converted, and not at all when a converts to FALSE (to TRUE);
\* the short-circuited and the full path reach the join label with exactly
\* one logical value on the stack.
C7_ShortCircuit ==
    \A n \in 1..Len(cstack) :
        (cstack[n].k = "eval" /\ IsAndOr(funs[cstack[n].fn].codes[cstack[n].ci].src)) =>
            LET fr == cstack[n]
                c == funs[fr.fn].codes[fr.ci]
            IN /\ InOperandB(fr) =>
                     /\ Len(ostack) >= fr.base + 1
                     /\ ostack[fr.base + 1] \in LglSingletons
                     /\ c.src.fun.s = "&&" => ostack[fr.base + 1] # R_FalseValue
                     /\ c.src.fun.s = "||" => ostack[fr.base + 1] # R_TrueValue
               /\ (n = Len(cstack) /\ InEval /\ fr.pc = Len(c.code)) =>
                     /\ Len(ostack) = fr.base + 1
                     /\ Peek(ostack) \in LglSingletons

\* `x && (y <- TRUE)` with x FALSE has reached the join label by the branch:
\* y was never assigned.
C7_Witness ==
    /\ InEval
    /\ IsAndOr(CurCode.src)
    /\ CurCode.src.fun.s = "&&"
    /\ TopFrame.pc = Len(CurCode.code)
    /\ last.op = "brfalse_"
    /\ Peek(ostack) = R_FalseValue
    /\ CurCode.src.args[2].val = AssignY(T)
    /\ heap[R_GlobalEnv].x.frame["y"] = 0

\* FALSE < NA < TRUE
Rank(x) == CASE x = 0 -> 0 [] x = NA_LOGICAL -> 1 [] OTHER -> 2

ByRank(r) ==
    CASE r = 0 -> R_FalseValue [] r = 1 -> R_LogicalNAValue [] OTHER -> R_TrueValue

Min(a, b) == IF a <= b THEN a ELSE b
Max(a, b) == IF a >= b THEN a ELSE b

\* C8: lgl_and_ and lgl_or_ pop two logical scalars and push their
\* three-valued conjunction / disjunction (the minimum / maximum in the
\* order FALSE < NA < TRUE).
C8_ThreeValued ==
    last.op \in {"lgl_and_", "lgl_or_"} =>
        LET x1 == last.heap[StackAt(last.pre, 1)].v[1]
            x2 == last.heap[StackAt(last.pre, 0)].v[1]
        IN /\ status = "run"
           /\ ostack = Append(Pop(Pop(last.pre)),
                              IF last.op = "lgl_and_"
                              THEN ByRank(Min(Rank(x1), Rank(x2)))
                              ELSE ByRank(Max(Rank(x1), Rank(x2))))

\* NA && FALSE has been computed: FALSE.
C8_Witness ==
    /\ last.op = "lgl_and_"
    /\ StackAt(last.pre, 1) = R_LogicalNAValue
    /\ StackAt(last.pre, 0) = R_FalseValue
    /\ Peek(ostack) = R_FalseValue

\* The length of a value, its first element being NA, the truth of its
\* first element, read from the heap h.
LengthOf(h, t) ==
    IF h[t].type = "NILSXP" THEN 0
    ELSE IF h[t].type \in {"LGLSXP", "INTSXP", "REALSXP", "STRSXP", "VECSXP"}
    THEN Len(h[t].v) ELSE 1

FirstIsNA(h, t) ==
    /\ h[t].type \in {"LGLSXP", "INTSXP", "REALSXP"}
    /\ h[t].v[1] = NA_LOGICAL

\* The first element is neither a logical or a number, nor a string that
\* spells a logical.
NotLogical(h, t) ==
    \/ h[t].type \notin {"LGLSXP", "INTSXP", "REALSXP", "STRSXP"}
    \/ /\ h[t].type = "STRSXP"
       /\ h[t].v[1] \notin {"T", "TRUE", "true", "True", "F", "FALSE", "false", "False"}

FirstIsTrue(h, t) ==
    IF h[t].type = "STRSXP" THEN h[t].v[1] \in {"T", "TRUE", "true", "True"}
    ELSE h[t].v[1] # 0

AsboolError(msg) ==
    /\ status = "error"
    /\ errmsg = msg
    /\ ostack = last.pre

AsboolValue(h, t) ==
    /\ status = "run"
    /\ ostack = Append(Pop(last.pre),
                       IF FirstIsTrue(h, t) THEN R_TrueValue ELSE R_FalseValue)

NAMessage(h, t) ==
    IF h[t].type = "LGLSXP" THEN "missing value where TRUE/FALSE needed"
    ELSE "argument is not interpretable as logical"

\* C9, as the specification states it: asbool_ raises an error exactly when
\* the top value has length 0 or its first element is NA, and replaces the
\* top by TRUE or FALSE in every other case.
C9_ErrorOnlyOnEmptyOrNA ==
    last.op = "asbool_" =>
        LET t == Peek(last.pre)
            h == last.heap
        IN IF LengthOf(h, t) = 0 THEN AsboolError("argument is of length zero")
           ELSE IF FirstIsNA(h, t) THEN AsboolError(NAMessage(h, t))
           ELSE AsboolValue(h, t)

\* C9, as the code has it: asbool_ raises an error, the stack untouched,
\* when the top value has length 0, when its first element is NA, and also
\* when the value cannot be read as a logical at all (a string that spells
\* no logical, a list, a function): "argument is not interpretable as
\* logical"; in every other case it replaces the top by TRUE or FALSE.
C9_ErrorOnEmptyNAOrNotLogical ==
    last.op = "asbool_" =>
        LET t == Peek(last.pre)
            h == last.heap
        IN IF LengthOf(h, t) = 0 THEN AsboolError("argument is of length zero")
           ELSE IF FirstIsNA(h, t) \/ NotLogical(h, t) THEN AsboolError(NAMessage(h, t))
           ELSE AsboolValue(h, t)

\* asbool_ has refused the string "abc".
C9_Witness ==
    /\ last.op = "asbool_"
    /\ Peek(last.pre) = vAbc
    /\ status = "error"
    /\ errmsg = "argument is not interpretable as logical"

LengthWarning == "the condition has length > 1 and only the first element will be used"

\* C10: asbool_ on a vector longer than 1 gives a warning and goes on as it
\* does for the first element alone: the warning does not interrupt the
\* code body, and the outcome depends on the first element only.
C10_WarnsAndUsesFirst ==
    last.op = "asbool_" =>
        LET t == Peek(last.pre)
            h == last.heap
        IN IF LengthOf(h, t) > 1
           THEN /\ warnings = Append(last.warn, LengthWarning)
                /\ IF FirstIsNA(h, t) \/ NotLogical(h, t)
                   THEN AsboolError(NAMessage(h, t))
                   ELSE /\ AsboolValue(h, t)
                        /\ cstack = [last.cs EXCEPT ![Len(last.cs)].pc = @ + 1]
           ELSE warnings = last.warn

\* asbool_ has warned about c(FALSE, TRUE) and pushed FALSE.
C10_Witness ==
    /\ last.op = "asbool_"
    /\ Peek(last.pre) = vFalseTrue
    /\ status = "run"
    /\ Peek(ostack) = R_FalseValue
    /\ warnings = <<LengthWarning>>


\* C11: a non-local break resumes the loop's activation at the jump target
\* of its beginloop_ (where endcontext_ stands), a non-local next at the
\* instruction after the beginloop_; both are computed from the pc saved in
\* the frame, which is the pc of that beginloop_.
C11_LoopResume ==
    (last.op = "beginloop_SETJMP" /\ status = "run") =>
        LET c == last.ctx
            saved == heap[c].x.pc
            code == CurCode.code
        IN /\ R_GlobalContext = c
           /\ Len(cstack) = heap[c].x.cframe
           /\ heap[c].x.callflag = CTXT_LOOP
           /\ code[saved].op = "beginloop_"
           /\ last.jmp = CTXT_BREAK =>
                 /\ TopFrame.pc = saved + 1 + code[saved].imm
                 /\ CurIns.op = "endcontext_"
           /\ last.jmp = CTXT_NEXT =>
                 /\ TopFrame.pc = saved + 1
                 /\ TopFrame.pc < saved + 1 + code[saved].imm
           /\ last.jmp \in {CTXT_BREAK, CTXT_NEXT}

\* `repeat c(break)`: the break raised inside the builtin call has landed
\* on the endcontext_ of the loop.
C11_Witness ==
    /\ last.op = "beginloop_SETJMP"
    /\ last.jmp = CTXT_BREAK
    /\ status = "run"
    /\ CurIns.op = "endcontext_"
    /\ CurCode.src = Call1("repeat", Call1("c", Call0("break")))

\* `while (x) ((x <- FALSE) || c(next))`: the next has landed on the loop
\* head.
C11_WitnessNext ==
    /\ last.op = "beginloop_SETJMP"
    /\ last.jmp = CTXT_NEXT
    /\ status = "run"
    /\ CurCode.code[TopFrame.pc - 1].op = "beginloop_"


IsLoop(src, name) ==
    /\ src.t = "LANGSXP"
    /\ src.fun.t = "SYMSXP"
    /\ src.fun.s = name

\* The layout of the code of a loop: isspecial_, beginloop_, [cond,
\* asbool_, brfalse_,] body, pop_, br_, endcontext_, push_ Nil, invisible_,
\* ret_.
LoopEnd(code) == Len(code) - 3

\* The first instruction after isspecial_ and beginloop_.
LoopHead == Len(<<"isspecial_", "beginloop_">>) + 1

\* while: the brfalse_ that leaves the loop.
LoopTest(code) ==
    CHOOSE j \in 1..Len(code) :
        /\ code[j].op = "brfalse_"
        /\ j + 1 + code[j].imm = LoopEnd(code)

BodyStart(c) ==
    IF IsLoop(c.src, "while") THEN LoopTest(c.code) + 1 ELSE LoopHead

InBody(c, pc) == BodyStart(c) <= pc /\ pc < LoopEnd(c.code)

\* The code object the last step ran in, and the pc of that activation
\* before and after the step.
LastCode == funs[last.cs[last.fr].fn].codes[last.cs[last.fr].ci]

LastPc == last.cs[last.fr].pc

LastInLoop ==
    /\ last.fr > 0
    /\ last.fr <= Len(last.cs)
    /\ last.cs[last.fr].k = "eval"
    /\ IsLoop(LastCode.src, "while") \/ IsLoop(LastCode.src, "repeat")

\* while: the body is entered only by falling through the test with TRUE,
\* and the test with FALSE leaves the loop.
LoopTested ==
    (LastInLoop /\ IsLoop(LastCode.src, "while")) =>
        /\ (last.op = "brfalse_" /\ LastPc = LoopTest(LastCode.code)) =>
              /\ LastCode.code[LastPc - 1].op = "asbool_"
              /\ Peek(last.pre) \in {R_TrueValue, R_FalseValue}
              /\ Peek(last.pre) = R_TrueValue => cstack[last.fr].pc = BodyStart(LastCode)
              /\ Peek(last.pre) = R_FalseValue => cstack[last.fr].pc = LoopEnd(LastCode.code)
        /\ (/\ Len(cstack) >= last.fr
            /\ ~InBody(LastCode, LastPc)
            /\ InBody(LastCode, cstack[last.fr].pc)) =>
              /\ last.op = "brfalse_"
              /\ LastPc = LoopTest(LastCode.code)

\* The value of the body is popped, the stack is back to the loop frame
\* alone, and the closing br_ goes to the loop head.
LoopBodyDiscarded ==
    LastInLoop =>
        /\ (last.op = "pop_" /\ LastPc = LoopEnd(LastCode.code) - 2) =>
              /\ Len(ostack) = last.base + 1
              /\ Peek(ostack) = R_GlobalContext
        /\ (last.op = "br_" /\ LastPc = LoopEnd(LastCode.code) - 1) =>
              /\ cstack[last.fr].pc = LoopHead
              /\ Len(ostack) = last.base + 1

\* At the loop end the frame is ended.
LoopFrameEnded ==
    (LastInLoop /\ last.op = "endcontext_") =>
        /\ status = "run"
        /\ LastPc = LoopEnd(LastCode.code)
        /\ Len(ostack) = last.base
        /\ R_GlobalContext = last.heap[last.ctx].x.nextcontext

\* The loop leaves Nil, invisibly.
LoopLeavesNil ==
    (LastInLoop /\ last.op = "invisible_" /\ LastPc = Len(LastCode.code) - 1) =>
        /\ ostack = <<>> \o SubSeq(last.pre, 1, last.base) \o <<R_NilValue>>
        /\ ~R_Visible

\* C12: compiled `while (cond) body` tests cond before every iteration,
\* runs body only when cond is TRUE, discards each body value, and when
\* cond is FALSE ends the loop frame and leaves exactly Nil on the stack,
\* invisibly; `repeat body` is the same without the test.
C12_LoopLowering ==
    /\ LoopTested
    /\ LoopBodyDiscarded
    /\ LoopFrameEnded
    /\ LoopLeavesNil

\* The same, the activations aborted by the failed assertion of
\* endcontext_ set aside.
C12_LoopLoweringButAbort ==
    /\ LoopTested
    /\ LoopBodyDiscarded
    /\ LoopFrameEnded \/ status = "bug"
    /\ LoopLeavesNil

\* `while (x) x <- FALSE` has run its body once and left Nil.
C12_Witness ==
    /\ LastInLoop
    /\ IsLoop(LastCode.src, "while")
    /\ last.op = "invisible_"
    /\ Peek(ostack) = R_NilValue
    /\ heap[R_GlobalEnv].x.frame["x"] = R_FalseValue
    /\ LastCode.src.args[2].val = AssignX(F)


IsAssign(src) ==
    /\ src.t = "LANGSXP"
    /\ src.fun.t = "SYMSXP"
    /\ src.fun.s = "<-"
    /\ Len(src.args) = 2

Raised(n) == IF n < 2 THEN n + 1 ELSE 2

\* stvar_ has bound sym to the value v that was on top (for the Code
\* object of a quoted expression: to that expression, the value it stands
\* for), v is still on the stack below it, and invisible_ comes next.
Assigned(sym, v) ==
    /\ status = "run"
    /\ heap[last.cs[last.fr].env].x.frame[sym] = escape(last.heap, v)
    /\ heap[escape(last.heap, v)].named = Raised(last.heap[escape(last.heap, v)].named)
    /\ heap[escape(last.heap, v)].named >= 1
    /\ ostack = Pop(last.pre)
    /\ Len(ostack) > 0
    /\ Peek(ostack) = v
    /\ CurIns.op = "invisible_"

\* C13: compiled `sym <- rhs` binds sym in the current environment to the
\* value of rhs, the named indicator of the value raised (up to its
\* maximum 2), leaves that value as its single result and clears the
\* visibility flag.
C13_AssignSymbol ==
    /\ (last.op = "stvar_" /\ LastPc > 1 /\ LastCode.code[LastPc - 1].op = "dup_") =>
          Assigned(LastCode.code[LastPc].imm, Peek(last.pre))
    /\ \A n \in 1..Len(cstack) :
          LET fr == cstack[n]
          IN (/\ fr.k = "eval"
              /\ IsAssign(funs[fr.fn].codes[fr.ci].src)
              /\ funs[fr.fn].codes[fr.ci].src.args[1].val.t = "SYMSXP"
              /\ n = Len(cstack) /\ InEval
              /\ fr.pc = Len(funs[fr.fn].codes[fr.ci].code)) =>
                LET src == funs[fr.fn].codes[fr.ci].src
                    sym == src.args[1].val.s
                IN /\ Len(ostack) = fr.base + 1
                   /\ heap[fr.env].x.frame[sym] = escape(heap, Peek(ostack))
                   /\ src.args[2].val.t = "CONST" => Peek(ostack) = src.args[2].val.a
                   /\ ~R_Visible

\* The promise `y <- TRUE` has been evaluated: y is TRUE, the result is
\* TRUE, invisible.
C13_Witness ==
    /\ InEval
    /\ CurCode.src = AssignY(T)
    /\ TopFrame.pc = Len(CurCode.code)
    /\ last.op = "invisible_"
    /\ heap[curEnv].x.frame["y"] = R_TrueValue
    /\ Peek(ostack) = R_TrueValue
    /\ ~R_Visible


\* The program under evaluation: the source of the entry code of the first
\* Function object.
TopCode == funs[1].codes[funs[1].entry]

TopSrc == TopCode.src

\* a and b are the same value up to a shallow copy (uniq_ copies a value
\* that may be shared)
CopyOf(a, b) == [heap[a] EXCEPT !.named = 0] = [heap[b] EXCEPT !.named = 0]

\* the closure calls made by call_stack_ so far, and the results returned
\* to them (the calls of these programs do not nest)
SelectEv(e, s) == SelectSeq(trace, LAMBDA ev : ev.e = e /\ ev.s = s)

StackCalls == SelectEv("closure", "doCallStack")

RhsCalls == SelectEv("closure", "doCall")

Returns == SelectEv("return", "")

\* the result of the k-th call made by call_stack_
StackResult(k) == Returns[Len(RhsCalls) + k].b

\* The program is `target <- rhs` with a call as target, every getter and
\* setter of which is a closure.
NestedAssign ==
    /\ IsAssign(TopSrc)
    /\ TopSrc.args[1].val.t = "LANGSXP"
    /\ validAssignTarget(TopSrc.args[1].val)
    /\ \A i \in 1..(Len(lhsParts(TopSrc.args[1].val)) - 1) :
          LET g == lhsParts(TopSrc.args[1].val)[i].fun.s
          IN /\ GlobalFrame(0)[g] # 0
             /\ GlobalFrame(0)[g \o "<-"] # 0

TargetParts == lhsParts(TopSrc.args[1].val)

\* the number of calls in the target: the getters are those of
\* TargetParts[NParts] down to TargetParts[2], the setters those of
\* TargetParts[1] up to TargetParts[NParts]
NParts == Len(TargetParts) - 1

TargetSym == TargetParts[NParts + 1].s

\* stvar_ of the assignment has not run yet
NotStored ==
    /\ Len(cstack) >= 2
    /\ cstack[2].k = "eval"
    /\ cstack[2].pc <= Len(TopCode.code) - 2

\* the value of the right hand side: what is left at the bottom of the
\* stack once the first call_stack_ is reached (the Code object of a quoted
\* expression stands for that expression)
RhsValue == escape(heap, ostack[1])

\* The k-th call made by call_stack_ is the one the assignment prescribes:
\* getters first, innermost first, each applied to the result of the one
\* before it (the innermost to the value of the target symbol); then the
\* setters, outermost first, each applied to the target of its level with
\* the value of the right hand side, or the result of the setter before it,
\* as last argument under the name `value`.
ExpectedCall(k) ==
    LET ev == StackCalls[k]
        first == ev.b[1]
        lastArg == ev.b[Len(ev.b)]
        x0 == heap[R_GlobalEnv].x.frame[TargetSym]
    IN IF k <= NParts - 1
       THEN \* getter of TargetParts[NParts + 1 - k]
            /\ ev.a = GlobalFrame(0)[TargetParts[NParts + 1 - k].fun.s]
            /\ Len(ev.b) = Len(TargetParts[NParts + 1 - k].args)
            /\ first.name = ""
            /\ CopyOf(first.val, IF k = 1 THEN x0 ELSE StackResult(k - 1))
       ELSE \* setter of TargetParts[j]
            LET j == k - (NParts - 1)
            IN /\ ev.a = GlobalFrame(0)[TargetParts[j].fun.s \o "<-"]
               /\ Len(ev.b) = Len(TargetParts[j].args) + 1
               /\ first.name = ""
               /\ CopyOf(first.val, IF j = NParts THEN x0 ELSE StackResult(NParts - j))
               /\ lastArg.name = "value"
               /\ IF j = 1 THEN lastArg.val = RhsValue
                  ELSE CopyOf(lastArg.val, StackResult(k - 1))

\* C14: for a nested target such as `f(g(x), i) <- v` the code evaluates v
\* first, calls the getters from the innermost to the outermost and then
\* the setters `name<-` from the outermost to the innermost, each with the
\* current target as first argument and the previous result as last
\* argument `value`; it stores the result of the last setter into the target
\* symbol once and leaves exactly the value of v, invisibly.
C14_NestedAssign ==
    NestedAssign =>
      /\ Cardinality({i \in 1..Len(TopCode.code) : TopCode.code[i].op = "stvar_"}) = 1
      /\ TopCode.code[Len(TopCode.code) - 2] = I("stvar_", TargetSym)
      /\ (NotStored /\ status = "run") =>
            /\ Len(StackCalls) <= 2 * NParts - 1
            /\ \A k \in 1..Len(StackCalls) : ExpectedCall(k)
            /\ Len(StackCalls) > 0 =>
                  \A i \in 1..Len(trace) :
                     (trace[i].e = "closure" /\ trace[i].s = "doCall") =>
                        \E j \in (i + 1)..Len(trace) : trace[j] = StackCalls[1]
      /\ (last.op = "stvar_" /\ last.fr = 2 /\ status = "run") =>
            /\ Len(StackCalls) = 2 * NParts - 1
            /\ Len(Returns) = Len(RhsCalls) + Len(StackCalls)
            /\ CopyOf(heap[R_GlobalEnv].x.frame[TargetSym], StackResult(2 * NParts - 1))
            /\ ostack = <<last.pre[1]>>
      /\ (last.op = "invisible_" /\ last.fr = 2 /\ status = "run") =>
            /\ Len(ostack) = 1
            /\ ~R_Visible

\* `g(f(h(x)), y) <- h(x)` has stored the result of `h<-` into x: two
\* getters and three setters have been called, the right hand side before
\* them.
C14_Witness ==
    /\ NestedAssign
    /\ NParts = 3
    /\ last.op = "stvar_" /\ last.fr = 2 /\ status = "run"
    /\ Len(RhsCalls) = 1
    /\ Len(StackCalls) = 5
    /\ heap[R_GlobalEnv].x.frame["x"] # R_TrueValue

\* The program is `"name" <- rhs`.
StringAssign ==
    /\ IsAssign(TopSrc)
    /\ TopSrc.args[1].val.t = "STRSXP"

\* the same assignment with the symbol as its target
SymbolCase == Call2("<-", Sym(TopSrc.args[1].val.s), TopSrc.args[2].val)

CallOps == {"ldfun_", "isfun_", "call_", "call_stack_", "dispatch_"}

CallEvents == {"closure", "builtin", "special", "promise"}

\* C15: `"x" <- v` behaves exactly like `x <- v`: its code is the code of
\* the symbol case with a `pick_ 0` that changes nothing, so the same
\* binding is defined, the same single result is left, the visibility flag
\* is cleared, and no getter or setter is called.
C15_StringTarget ==
    StringAssign =>
      /\ SelectSeq(TopCode.code, LAMBDA i : i # I("pick_", 0))
            = compile(SymbolCase).codes[compile(SymbolCase).entry].code
      /\ Len(funs[1].codes) = Len(compile(SymbolCase).codes)
      /\ \A i \in 1..Len(TopCode.code) : TopCode.code[i].op \notin CallOps
      /\ \A i \in 1..Len(trace) : trace[i].e \notin CallEvents
      /\ (last.op = "pick_" /\ status = "run") =>
            /\ ostack = last.pre
            /\ heap = last.heap
            /\ R_Visible = TRUE
      /\ (last.op = "stvar_" /\ status = "run") =>
            Assigned(TopSrc.args[1].val.s, Peek(last.pre))
      /\ (last.op = "invisible_" /\ status = "run") =>
            /\ Len(ostack) = 1
            /\ heap[R_GlobalEnv].x.frame[TopSrc.args[1].val.s] = Peek(ostack)
            /\ TopSrc.args[2].val.t = "CONST" => Peek(ostack) = TopSrc.args[2].val.a
            /\ ~R_Visible

\* `"x" <- TRUE` has run where x was bound to FALSE: x is TRUE now.
C15_Witness ==
    /\ StringAssign
    /\ last.op = "invisible_"
    /\ status = "run"
    /\ last.heap[R_GlobalEnv].x.frame["x"] = R_TrueValue
    /\ \E i \in 1..Len(TopCode.code) : TopCode.code[i].op = "pick_"

\* the call_stack_ instruction that has just been executed, its call as
\* the source pool had it, and the same instruction as the pool has it now
StackCallIns == LastCode.code[LastPc]

\* call_stack_ has run on a call with a placeholder and a closure as the
\* callee: the argument list is about to be built for the call in the
\* frame
StackCallFilled ==
    /\ last.op = "call_stack_"
    /\ status = "run"
    /\ TopFrame.k = "createArgsListStack"
    /\ TYPEOF(TopFrame.callee) = "CLOSXP"
    /\ IsGetterCall(StackCallIns.ast) \/ IsSetterCall(StackCallIns.ast)

\* v as it stands in a call: a value as it is, a symbol or a call quoted
AsArgument(v) ==
    IF last.heap[v].type \in {"LANGSXP", "SYMSXP"} THEN Call1("quote", Const(v))
    ELSE Const(v)

\* Every call_stack_ of every code object has a placeholder as the first
\* argument of its call, a setter call as its last argument too.
PoolHasPlaceholders ==
    \A f \in 1..Len(funs) : \A c \in 1..Len(funs[f].codes) :
       \A p \in 1..Len(funs[f].codes[c].code) :
          LET ins == funs[f].codes[c].code[p]
          IN (ins.op = "call_stack_" /\ ins.ast.t = "LANGSXP") =>
                /\ IsGetterCall(ins.ast) \/ IsSetterCall(ins.ast)
                /\ IsSetterCall(ins.ast) =>
                      ins.ast.args[Len(ins.ast.args)]
                          = [tag |-> "value", val |-> setterPlaceholder]

C16_WitnessGetter ==
    /\ StackCallFilled
    /\ IsGetterCall(StackCallIns.ast)

\* uniq_ has run right after another uniq_ of the same code.
SecondUniq ==
    /\ last.op = "uniq_"
    /\ status = "run"
    /\ LastPc > 1
    /\ LastCode.code[LastPc - 1].op = "uniq_"

\* C17: uniq_ applied twice in a row leaves what uniq_ applied once leaves:
\* the second application changes neither the value on top of the stack
\* nor its named indicator.
C17_UniqTwiceIsOnce ==
    SecondUniq =>
       /\ ostack = last.pre
       /\ heap[Peek(ostack)].named = last.heap[Peek(last.pre)].named

\* What the code does: uniq_ raises the named indicator of the value it
\* leaves on top, so a value that uniq_ left at 1 is at 2 after the second
\* uniq_, and a value that uniq_ left at 2 is copied by the second.
C17_UniqRaisesNamed ==
    last.op = "uniq_" /\ status = "run" =>
       /\ Len(ostack) = Len(last.pre)
       /\ Pop(ostack) = Pop(last.pre)
       /\ IF last.heap[Peek(last.pre)].named > 1
          THEN /\ Peek(ostack) > Len(last.heap)
               /\ heap[Peek(ostack)].named = 1
               /\ CopyOf(Peek(ostack), Peek(last.pre))
          ELSE /\ Peek(ostack) = Peek(last.pre)
               /\ heap[Peek(ostack)].named = last.heap[Peek(last.pre)].named + 1

\* the sequence s without its element at position p
Remove(s, p) == SubSeq(s, 1, p - 1) \o SubSeq(s, p + 1, Len(s))

\* pick_ or put_ has moved an element inside the stack
Moved(op) ==
    /\ last.op = op
    /\ status = "run"
    /\ LastCode.code[LastPc].imm < Len(last.pre)

\* the second instruction of `pick_ n; put_ n` or of `put_ n; pick_ n` has
\* run on the stack StackVals
InversePair ==
    /\ \E o \in {1, 2}, n \in 0..(Len(StackVals) - 1) :
          funs[1] = RawFunction(<<StackProgram(o, n)>>)
    /\ last.op \in {"pick_", "put_"}
    /\ status = "run"
    /\ LastPc = Len(StackVals) + 2

\* C18: for n smaller than the stack height pick_ n moves the element n
\* slots below the top to the top and put_ n moves the top n slots down,
\* both keeping the order of the other elements and the height; pick_ n
\* then put_ n, and put_ n then pick_ n, leave the stack as it was.
C18_PickPutInverse ==
    /\ Moved("pick_") =>
          LET n == LastCode.code[LastPc].imm
          IN /\ Len(ostack) = Len(last.pre)
             /\ Peek(ostack) = StackAt(last.pre, n)
             /\ Pop(ostack) = Remove(last.pre, Len(last.pre) - n)
    /\ Moved("put_") =>
          LET n == LastCode.code[LastPc].imm
          IN /\ Len(ostack) = Len(last.pre)
             /\ StackAt(ostack, n) = Peek(last.pre)
             /\ Remove(ostack, Len(ostack) - n) = Pop(last.pre)
    /\ InversePair => ostack = StackVals

\* put_ 2 has undone pick_ 2 on a stack of four different values.
C18_Witness ==
    /\ InversePair
    /\ last.op = "put_"
    /\ LastCode.code[LastPc].imm = 2
    /\ last.pre # ostack
    /\ last.pre = <<StackVals[1], StackVals[3], StackVals[4], StackVals[2]>>

\* the types is_ answers TRUE for, by tag
TypesOfTag ==
    [t \in {"NILSXP", "LGLSXP", "REALSXP", "VECSXP", "LISTSXP"} |->
        CASE t = "VECSXP" -> {"VECSXP", "LISTSXP"}
          [] t = "LISTSXP" -> {"LISTSXP", "NILSXP"}
          [] OTHER -> {t}]

\* C19: is_ tag pops one value and pushes TRUE or FALSE, the height of the
\* stack unchanged: TRUE exactly when the type of the value is the tag for
\* NILSXP, LGLSXP and REALSXP, when it is VECSXP or LISTSXP for VECSXP, and
\* when it is LISTSXP or NILSXP for LISTSXP.
C19_IsTag ==
    (last.op = "is_" /\ status = "run") =>
       LET tag == LastCode.code[LastPc].imm
           type == last.heap[Peek(last.pre)].type
       IN /\ Len(ostack) = Len(last.pre)
          /\ Pop(ostack) = Pop(last.pre)
          /\ Peek(ostack) \in {R_TrueValue, R_FalseValue}
          /\ Peek(ostack) = R_TrueValue <=> type \in TypesOfTag[tag]
          /\ heap = last.heap

\* is.list(x) compiled to is_ VECSXP has answered TRUE for a pairlist.
C19_Witness ==
    /\ last.op = "is_"
    /\ status = "run"
    /\ TopSrc = Call1("is.list", Sym("x"))
    /\ LastCode.code[LastPc].imm = "VECSXP"
    /\ last.heap[Peek(last.pre)].type = "LISTSXP"
    /\ Peek(ostack) = R_TrueValue

\* is_ LISTSXP has answered TRUE for NULL.
C19_WitnessNil ==
    /\ last.op = "is_"
    /\ status = "run"
    /\ LastCode.code[LastPc].imm = "LISTSXP"
    /\ Peek(last.pre) = R_NilValue
    /\ Peek(ostack) = R_TrueValue

\* The types ldfun_ lets through its switch.
FunTypes == {"CLOSXP", "BUILTINSXP", "SPECIALSXP"}

\* The closures whose body is compiled code.
CompiledClosures ==
    {a \in DOMAIN heap : heap[a].type = "CLOSXP" /\ heap[a].x.compiled # 0}

C20_WitnessJit ==
    /\ last.op = "ldfun_"
    /\ status = "run"
    /\ heap[Peek(ostack)].type = "CLOSXP"
    /\ last.heap[Peek(ostack)].x.compiled = 0
    /\ heap[Peek(ostack)].x.compiled = Len(funs)

\* ldfun_ has passed over a binding that is not a function and pushed the
\* builtin bound further out.
C20_WitnessSkip ==
    /\ last.op = "ldfun_"
    /\ status = "run"
    /\ heap[Peek(ostack)].type = "BUILTINSXP"
    /\ findVarIn(last.heap, LastCode.code[LastPc].imm, last.cs[last.fr].env)
         # Peek(ostack)

\* ldfun_ has raised an error and left the stack as it was.
C20_WitnessError ==
    /\ last.op = "ldfun_"
    /\ status = "error"
    /\ ostack = last.pre

\* The instruction of the last step and the environment it ran in.
LastIns == LastCode.code[LastPc]

LastEnv == last.cs[last.fr].env

\* What the lookup of the last ldvar_ or ldddvar_ found before the step
\* (0: the host's lookup of a ..n symbol raised its own error).
LoadFound ==
    IF last.op = "ldvar_" THEN findVarIn(last.heap, LastIns.imm, LastEnv)
    ELSE LET vl == findVarIn(last.heap, "...", LastEnv)
         IN IF /\ vl # R_UnboundValue
               /\ last.heap[vl].type = "DOTSXP"
               /\ Len(last.heap[vl].x.list) >= ddVal(LastIns.imm)
            THEN last.heap[vl].x.list[ddVal(LastIns.imm)].val
            ELSE 0

Markers == {R_UnboundValue, R_MissingArg}

MissingMessages ==
    {"argument is missing, with no default"}
    \cup {"argument \"" \o s \o "\" is missing, with no default" : s \in Syms}

\* The last step, a load, has pushed v on the stack as it was.
LoadPushed(v) ==
    /\ ostack = Append(last.pre, v)
    /\ v \notin Markers
    /\ heap[v].type # "PROMSXP"

\* C21: ldvar_ and ldddvar_ never push a promise, the unbound marker or the
\* missing marker.  A binding that is an evaluated promise has its value
\* pushed; one that is not evaluated is forced, nothing being pushed until
\* its code has returned, and then its value is pushed.  The unbound marker
\* raises "object not found" and the missing marker an "argument is
\* missing" error, and whenever a load ends in an error the stack is as it
\* was before the load.
C21_LoadNeverPushesMarker ==
    /\ last.op \in {"ldvar_", "ldddvar_"} =>
         /\ status \in {"run", "error"}
         /\ status = "error" => ostack = last.pre
         /\ LoadFound = 0 => status = "error"
         /\ LoadFound = R_UnboundValue =>
               status = "error" /\ errmsg = "object not found"
         /\ LoadFound = R_MissingArg =>
               status = "error" /\ errmsg \in MissingMessages
         /\ (LoadFound # 0 /\ LoadFound \notin Markers) =>
               /\ status = "run"
               /\ IF last.heap[LoadFound].type # "PROMSXP"
                  THEN LoadPushed(LoadFound)
                  ELSE IF last.heap[LoadFound].x.value # R_UnboundValue
                  THEN LoadPushed(last.heap[LoadFound].x.value)
                  ELSE /\ ostack = last.pre
                       /\ Len(cstack) > Len(last.cs) + 1
                       /\ cstack[Len(last.cs) + 1].k = "forcePromise"
                       /\ cstack[Len(last.cs) + 1].prom = LoadFound
    /\ last.op = "forcePromise" =>
         /\ status = "run"
         /\ LoadPushed(heap[Peek(last.cs).prom].x.value)

\* ldddvar_ has found an unevaluated promise in the dots list, forced it,
\* and its value is pushed now.
C21_Witness ==
    /\ last.op = "forcePromise"
    /\ status = "run"
    /\ LET fr == cstack[Len(cstack)]
       IN /\ fr.k = "eval"
          /\ funs[fr.fn].codes[fr.ci].code[fr.pc - 1].op = "ldddvar_"
    /\ Peek(ostack) = heap[Peek(last.cs).prom].x.value
    /\ heap[Peek(ostack)].type # "PROMSXP"

\* ldvar_ has raised "object not found" for an unbound symbol, nothing pushed.
C21_WitnessUnbound ==
    /\ last.op = "ldvar_"
    /\ LoadFound = R_UnboundValue
    /\ errmsg = "object not found"
    /\ ostack = last.pre
    /\ Len(ostack) > 0

\* ldddvar_ has raised the error for a missing argument, nothing pushed.
C21_WitnessMissing ==
    /\ last.op = "ldddvar_"
    /\ LoadFound = R_MissingArg
    /\ status = "error"
    /\ ostack = last.pre

\* ldvar_ has raised the error for a missing argument.
C21_WitnessMissingVar ==
    /\ last.op = "ldvar_"
    /\ LoadFound = R_MissingArg
    /\ errmsg = "argument \"x\" is missing, with no default"

\* ldvar_ has pushed the value of a promise that was evaluated before.
C21_WitnessValue ==
    /\ last.op = "ldvar_"
    /\ status = "run"
    /\ last.heap[LoadFound].type = "PROMSXP"
    /\ Peek(ostack) = last.heap[LoadFound].x.value

\* The last step has pushed the value of the promise that an ldvar_ forced.
ForcedByLdvar ==
    /\ last.op = "forcePromise"
    /\ status = "run"
    /\ LET fr == cstack[Len(cstack)]
       IN /\ fr.k = "eval"
          /\ funs[fr.fn].codes[fr.ci].code[fr.pc - 1].op = "ldvar_"

\* The last step is the return of the builtin or special callee with a
\* value, from doCall or doCallStack.
BuiltinReturned(callee) ==
    /\ status = "run"
    /\ jmp = 0
    /\ \/ /\ last.op \in {"doCall_builtin", "doCallStack_builtin"}
          /\ callee = Peek(last.cs).callee
       \/ /\ last.op = "call_"
          /\ callee = Peek(last.pre)
          /\ heap[callee].type = "SPECIALSXP"

PrintFlag(callee) == (FunTabEval(heap[callee].x.name) \div 100) % 10

\* The flag after the instructions that set it themselves and after a
\* builtin or special call: TRUE after push_ and after the step of ldvar_,
\* FALSE after invisible_, TRUE for print flag 0 and FALSE for print flag 1
\* after the call.
VisibleSet ==
    /\ last.op = "push_" => R_Visible
    /\ last.op = "ldvar_" => R_Visible
    /\ last.op = "invisible_" => ~R_Visible
    /\ \A callee \in DOMAIN heap :
          BuiltinReturned(callee) =>
             /\ PrintFlag(callee) = 0 => R_Visible
             /\ PrintFlag(callee) = 1 => ~R_Visible
             /\ PrintFlag(callee) \in 0..2

\* C22, as the specification states it: the flag is TRUE immediately after
\* push_ and ldvar_, also when the ldvar_ had to force a promise, FALSE
\* after invisible_, and after a builtin or special call it is TRUE for
\* print flag 0 and FALSE for print flag 1.
C22_VisibleAfterLoad ==
    /\ VisibleSet
    /\ ForcedByLdvar => R_Visible

\* C22, as the code has it: ldvar_ sets the flag before it forces a
\* promise, so that when the value of a forced promise is pushed the flag is
\* what the code of the promise left, FALSE when that code ended with
\* invisible_; the rest is as stated, and for print flag 2 the flag is what
\* the callee left.
C22_VisibleFlag ==
    /\ VisibleSet
    /\ ForcedByLdvar => R_Visible = last.vis
    /\ \A callee \in DOMAIN heap :
          (BuiltinReturned(callee) /\ PrintFlag(callee) = 2) =>
             R_Visible = specialVisible(heap[callee].x.name, 2)

\* The builtin invisible (print flag 1) has returned and the flag is FALSE
\* although its argument was evaluated with the flag TRUE.
C22_Witness ==
    /\ last.op = "doCall_builtin"
    /\ BuiltinReturned(Peek(last.cs).callee)
    /\ PrintFlag(Peek(last.cs).callee) = 1
    /\ last.vis
    /\ ~R_Visible

\* ldvar_ has forced a promise whose code ended with invisible_: the value
\* is pushed and the flag is FALSE.
C22_WitnessForced ==
    /\ ForcedByLdvar
    /\ ~R_Visible

\* The special { (print flag 2) has returned.
C22_WitnessBegin ==
    /\ last.op = "call_"
    /\ BuiltinReturned(Peek(last.pre))
    /\ PrintFlag(Peek(last.pre)) = 2
    /\ R_Visible

\* The value v is the AST ast.
IsAstValue(v, ast) ==
    IF ast.t = "CONST" THEN v = ast.a
    ELSE heap[v].type = ast.t /\ heap[v].x.ast = ast

C23_AsastReadsConstantPool ==
    (last.op = "asast_" /\ status = "run") =>
       LET p == Peek(last.pre)
       IN /\ Pop(ostack) = Pop(last.pre)
          /\ \E e \in cp_pool(funs[last.heap[p].x.fn]) : IsAstValue(Peek(ostack), e)

\* asast_ has replaced the promise for `y <- TRUE` by the constant TRUE.
C23_WrongPool ==
    /\ last.op = "asast_"
    /\ status = "run"
    /\ funs[last.heap[Peek(last.pre)].x.fn].codes[last.heap[Peek(last.pre)].x.ci].src
         = AssignY(T)
    /\ Peek(ostack) = R_TrueValue

\* The operands of the last extract1_.
ExtractIdx == Peek(last.pre)

ExtractVal == Peek(Pop(last.pre))

\* The last step is an extract1_ of a vector with a scalar index, of one of
\* the types of the fast path, that is greater than the length.
IndexBeyondLength ==
    /\ last.op = "extract1_"
    /\ last.heap[ExtractVal].type \in {"REALSXP", "INTSXP", "LGLSXP", "STRSXP", "VECSXP"}
    /\ last.heap[ExtractIdx].type \in SimpleTypes
    /\ Len(last.heap[ExtractIdx].v) = 1
    /\ ~last.heap[ExtractIdx].obj
    /\ last.heap[ExtractIdx].v[1] > Len(last.heap[ExtractVal].v)

\* C24: extract1_ with a scalar index greater than the length of the vector
\* produces no result on the fast path: it falls back to the generic `[[`,
\* whose outcome, the error "subscript out of bounds", is the outcome of the
\* instruction; the two operands are off the stack, nothing is pushed, the
\* heap is unchanged and no assertion of the interpreter fails.
C24_OutOfRangeFallsBack ==
    IndexBeyondLength =>
       /\ trace[Len(trace)] = Event("extract1", 0, 0)
       /\ status = "error"
       /\ errmsg = "subscript out of bounds"
       /\ ostack = Pop(Pop(last.pre))
       /\ heap = last.heap

\* extract1_ of the vector 1 with the index 2 has fallen back.
C24_Witness ==
    /\ IndexBeyondLength
    /\ ExtractVal = vOne
    /\ ExtractIdx = vTwo
    /\ status = "error"

\* extract1_ has taken the fast path and pushed a fresh vector with the
\* second element.
C24_WitnessFast ==
    /\ last.op = "extract1_"
    /\ status = "run"
    /\ ExtractVal = vTrueFalse
    /\ ExtractIdx = vTwo
    /\ trace[Len(trace)] = Event("extract1", 1, 0)
    /\ Peek(ostack) = Len(last.heap) + 1
    /\ heap[Peek(ostack)].v = <<0>>

\* The code objects of the function f, and the call_ instructions in them.
CodesOf(f) == 1..Len(funs[f].codes)

CallsIn(f, c) ==
    {pc \in 1..Len(funs[f].codes[c].code) : funs[f].codes[c].code[pc].op = "call_"}

\* The promise bodies named by the argument vectors of the call_
\* instructions of f, as <<code, pc, argument>> triples.
PromiseArgs(f) ==
    {t \in UNION {UNION {{<<c, pc, i>> :
                            i \in 1..Len(funs[f].codes[c].code[pc].imm.args)} :
                         pc \in CallsIn(f, c)} : c \in CodesOf(f)} :
        funs[f].codes[t[1]].code[t[2]].imm.args[t[3]]
           \notin {DOTS_ARG_IDX, MISSING_ARG_IDX}}

ArgIdx(f, t) == funs[f].codes[t[1]].code[t[2]].imm.args[t[3]]

EndsWithRet(code) == Len(code) > 0 /\ code[Len(code)] = I("ret_", 0)

\* The call_ at pc of code c of f is the lowering of its call AST.
CallLowered(f, c, pc) ==
    LET code == funs[f].codes[c].code
        ins == code[pc]
        ast == ins.ast
    IN /\ ast.t = "LANGSXP"
       /\ Len(ins.imm.args) = Len(ast.args)
       /\ Len(ins.imm.names) = Len(ast.args)
       /\ pc > 1
       /\ IF ast.fun.t = "SYMSXP"
          THEN code[pc - 1] = I("ldfun_", ast.fun.s)
          ELSE code[pc - 1] = I("isfun_", 0)
       /\ \A i \in 1..Len(ast.args) :
             CASE IsSym(ast.args[i].val, "...") ->
                    ins.imm.args[i] = DOTS_ARG_IDX /\ ins.imm.names[i] = ""
               [] IsSym(ast.args[i].val, "") ->
                    ins.imm.args[i] = MISSING_ARG_IDX /\ ins.imm.names[i] = ""
               [] OTHER ->
                    /\ ins.imm.args[i] \in CodesOf(f)
                    /\ ins.imm.args[i] # funs[f].entry
                    /\ funs[f].codes[ins.imm.args[i]].src = ast.args[i].val
                    /\ EndsWithRet(funs[f].codes[ins.imm.args[i]].code)
                    /\ ins.imm.names[i] = ast.args[i].tag

\* The functions the compiler produced (a hand-assembled function has no
\* source expression).
CompiledFuns ==
    {f \in 1..Len(funs) : funs[f].codes[funs[f].entry].src.t # "NONE"}

\* C25: every call_ of a compiled function carries one entry per source argument, in source order:
\* DOTS_ARG_IDX for `...`, MISSING_ARG_IDX for an empty argument, otherwise
\* the index of a promise body compiled from the argument that ends with
\* ret_ and is the body of no other argument; the names are parallel, nil
\* for dots and missing; the callee is loaded just before.  A code object
\* that is a call of a symbol which is not inlined is ldfun_, one call_,
\* ret_; the
\* entry body of every function ends with ret_.
C25_CallLowering ==
    \A f \in CompiledFuns :
       /\ EndsWithRet(funs[f].codes[funs[f].entry].code)
       /\ \A c \in CodesOf(f) :
             /\ \A pc \in CallsIn(f, c) : CallLowered(f, c, pc)
             /\ (funs[f].codes[c].src.t = "LANGSXP"
                   /\ funs[f].codes[c].src.fun.t = "SYMSXP"
                   /\ funs[f].codes[c].code[1].op = "ldfun_") =>
                  /\ Len(funs[f].codes[c].code) = 3
                  /\ CallsIn(f, c) = {2}
                  /\ funs[f].codes[c].code[2].ast = funs[f].codes[c].src
       /\ \A s, t \in PromiseArgs(f) : ArgIdx(f, s) = ArgIdx(f, t) => s = t

\* The call f(y = g(x), ..., ) has been compiled and f is being called with
\* the arguments that call_ gave it.
C25_Witness ==
    /\ last.op = "call_"
    /\ status = "run"
    /\ LastIns.ast.fun = Sym("f")
    /\ LastIns.imm.args = <<2, DOTS_ARG_IDX, MISSING_ARG_IDX>>
    /\ LastIns.imm.names = <<"y", "", "">>
    /\ funs[1].codes[2].src = Call1("g", Sym("x"))
    /\ funs[1].codes[1].src = Sym("x")

\* The targets an assignment goes through, outermost first: each call of
\* the chain and what its first argument bottoms out in.
RECURSIVE targetChain(_)
targetChain(l) ==
    IF l.t = "LANGSXP" /\ Len(l.args) > 0
    THEN <<l>> \o targetChain(l.args[1].val)
    ELSE <<l>>

\* A call in the chain has a head that is no symbol, or the chain ends in
\* something that is neither a symbol nor a string.
BadTarget(l) ==
    \/ \E i \in 1..Len(targetChain(l)) :
          /\ targetChain(l)[i].t = "LANGSXP"
          /\ targetChain(l)[i].fun.t # "SYMSXP"
    \/ targetChain(l)[Len(targetChain(l))].t \notin {"SYMSXP", "STRSXP"}

BadAssign(src) ==
    /\ IsAssign(src)
    /\ BadTarget(src.args[1].val)

DoSetErrors ==
    {"invalid (do_set) left-hand side to assignment",
     "invalid (NULL) left side of assignment",
     "target of assignment expands to non-language object",
     "invalid function in complex assignment"}

\* C26: a code object compiled from an assignment whose target has a call
\* with a non-symbol head, or bottoms out in neither a symbol nor a string,
\* holds no isspecial_ guard or any other instruction of the inlined form:
\* it is ldfun_ `<-`, one call_ with the two arguments as promises, ret_.
\* When that call_ runs, the host's `<-` gets the call and rejects it.
C26_InvalidTargetIsCall ==
    /\ \A f \in CompiledFuns : \A c \in CodesOf(f) :
          BadAssign(funs[f].codes[c].src) =>
             LET code == funs[f].codes[c].code
             IN /\ Len(code) = 3
                /\ code[1] = I("ldfun_", "<-")
                /\ code[2].op = "call_"
                /\ code[2].ast = funs[f].codes[c].src
                /\ Len(code[2].imm.args) = 2
                /\ \A i \in 1..2 :
                      /\ code[2].imm.args[i] \in CodesOf(f)
                      /\ funs[f].codes[code[2].imm.args[i]].src
                           = funs[f].codes[c].src.args[i].val
                /\ code[3] = I("ret_", 0)
    /\ (last.op = "call_" /\ BadAssign(LastIns.ast)) =>
          /\ Peek(last.pre) = findFun("<-", LastEnv)
          /\ TYPEOF(Peek(last.pre)) = "SPECIALSXP"
          /\ status = "error"
          /\ errmsg \in DoSetErrors

\* f()(x) <- TRUE was compiled to a call of `<-`, and the host has rejected
\* the head of the target.
C26_Witness ==
    /\ last.op = "call_"
    /\ BadAssign(LastIns.ast)
    /\ LastIns.ast.args[1].val.t = "LANGSXP"
    /\ LastIns.ast.args[1].val.fun.t = "LANGSXP"
    /\ LastCode.code[1] = I("ldfun_", "<-")
    /\ errmsg = "invalid function in complex assignment"

\* x(f()) <- TRUE as the argument of a builtin: the promise body is the call
\* of `<-`, and the target ends in a call without arguments.
C26_WitnessPromise ==
    /\ last.op = "call_"
    /\ BadAssign(LastIns.ast)
    /\ last.cs[last.fr].ci # funs[last.cs[last.fr].fn].entry
    /\ errmsg = "invalid (NULL) left side of assignment"

\* The argument of the call of rirEval the run began with, and the
\* self-evaluating values: nil, vectors, lists, environments, closures,
\* builtins and specials (a Function object is executed).
EvalArg == last.cs[1].e

SelfEvaluatingArg ==
    /\ last.op = "rirEval_enter"
    /\ last.heap[EvalArg].type \in
          {"NILSXP", "LGLSXP", "INTSXP", "REALSXP", "STRSXP", "VECSXP",
           "LISTSXP", "ENVSXP", "CLOSXP", "BUILTINSXP", "SPECIALSXP"}
    /\ "fn" \notin DOMAIN last.heap[EvalArg].x

\* C27: rirEval of a self-evaluating value returns that value: nothing is
\* compiled, no code object is entered, the value stack is as it was, no
\* other cell of the heap changes, and the value's named indicator is 2.
C27_SelfEvaluating ==
    SelfEvaluatingArg =>
       /\ status = "done"
       /\ retval = EvalArg
       /\ heap[EvalArg].named = 2
       /\ heap = [last.heap EXCEPT ![EvalArg].named = 2]
       /\ ostack = last.pre
       /\ Len(funs) = 1
       /\ Len(trace) = last.tr
       /\ cstack = <<>>

\* rirEval has returned a vector that came with the named indicator 0.
C27_Witness ==
    /\ SelfEvaluatingArg
    /\ EvalArg = vTrueFalse
    /\ last.heap[EvalArg].named = 0
    /\ retval = vTrueFalse

\* A closure and an environment are returned as they are.
C27_WitnessClosure ==
    /\ SelfEvaluatingArg
    /\ last.heap[EvalArg].type \in {"CLOSXP", "ENVSXP"}
    /\ status = "done"

\* The other cases do run bytecode: a call is compiled and entered.
C27_WitnessCompiled ==
    /\ last.op = "rirEval_enter"
    /\ last.heap[EvalArg].type = "LANGSXP"
    /\ Len(funs) = 2
    /\ Len(cstack) = 2

\* The trampoline of a closure call has just been entered again through its
\* SETJMP with the restart token as the value of the transfer.
RestartReached ==
    /\ last.op = "rirCallTrampoline_SETJMP"
    /\ last.fr > 0
    /\ last.heap[last.cs[last.fr].store].x.callflag = CTXT_RETURN + CTXT_RESTART
    /\ status = "run"

RestartFrame == last.cs[last.fr]

\* The stack is cut back to the snapshot, the token is cleared, the restart
\* bit of the context is off, and the code object of the frame is entered
\* in the environment of the frame.
Restarted ==
    /\ ostack = SubSeq(last.pre, 1, heap[RestartFrame.store].x.stackPointer)
    /\ Peek(ostack) = RestartFrame.store
    /\ StackAt(ostack, 1) = RestartFrame.env
    /\ R_ReturnedValue = R_NilValue
    /\ jmp = 0
    /\ heap[RestartFrame.store].x.callflag = CTXT_RETURN
    /\ R_GlobalContext = RestartFrame.store
    /\ Len(cstack) = last.fr + 1
    /\ cstack[last.fr] = RestartFrame
    /\ TopFrame.k = "eval"
    /\ TopFrame.fn = RestartFrame.fn
    /\ TopFrame.ci = funs[RestartFrame.fn].entry
    /\ TopFrame.env = RestartFrame.env
    /\ TopFrame.env = heap[RestartFrame.store].x.cloenv

\* C28 as stated: the body is entered again at the pc saved in the frame.
C28_RestartFromSavedPc ==
    RestartReached => (Restarted /\ TopFrame.pc = heap[RestartFrame.store].x.pc)

\* C28: when a restart token reaches the frame of a compiled closure, the
\* stack snapshot is restored, the token cleared, the restart bit of the
\* context turned off and the same code object entered again in the same
\* environment, at its first instruction: the pc the frame saves is NULL
\* and is not read.
C28_RestartFromStart ==
    RestartReached =>
       /\ Restarted
       /\ TopFrame.pc = 1
       /\ heap[RestartFrame.store].x.pc = 0

\* r(x) has been restarted out of the argument list of restart: the first
\* operand of && was above the snapshot, and x is bound to FALSE in the
\* environment the body is entered in again.
C28_Witness ==
    /\ RestartReached
    /\ Restarted
    /\ heap[TopFrame.env].x.frame["x"] = R_FalseValue
    /\ Len(last.pre) = Len(ostack) + 1

\* w(x) has been restarted out of its loop: the context store of the loop
\* was above the snapshot.
C28_WitnessLoop ==
    /\ RestartReached
    /\ Restarted
    /\ Len(last.pre) > Len(ostack)

\* The restarted call of r has returned FALSE.
C28_WitnessReturned ==
    /\ status = "done"
    /\ retval = R_FalseValue
    /\ \E i \in 1..Len(trace) : trace[i].e = "restart"

\* The frames of cstack that execute a code object.
EvalFrames == {i \in 1..Len(cstack) : cstack[i].k = "eval"}

\* The height of the value stack up to which frame i has filled it: the
\* height at which the next code object above it was entered (the promise
\* it forces, or the closure it calls, whose environment and context store
\* are below that height), the height of the stack when there is none.
FilledTo(i) ==
    IF \E j \in EvalFrames : j > i
    THEN cstack[CHOOSE j \in EvalFrames : j > i /\ \A k \in EvalFrames : k > i => j <= k].base
    ELSE Len(ostack)

FrameCode(i) == funs[cstack[i].fn].codes[cstack[i].ci].code

C29_WitnessLoop ==
    \E i \in EvalFrames :
       /\ jmp = 0
       /\ i < Len(cstack)
       /\ cstack[i + 1].k = "rirCallClosure"
       /\ \E n \in (cstack[i].base + 1)..(FilledTo(i) - 2) :
             /\ TYPEOF(ostack[n]) = "RAWSXP"
             /\ FlagsMeet(heap[ostack[n]].x.callflag, CTXT_LOOP)

\* isspecial_ has just run on a symbol that findVar resolves to something
\* that is neither a special nor a builtin.
GuardRebound ==
    /\ last.op = "isspecial_"
    /\ TYPEOF(findVar(LastIns.imm, LastEnv)) \notin {"SPECIALSXP", "BUILTINSXP"}

\* C30: when the symbol guarded by isspecial_ is rebound to something that
\* is no special or builtin, execution goes on with the dynamic resolution
\* of the call: the interpreter is running and the function of the guarded
\* symbol is looked up next.
C30_GuardFallsBack ==
    GuardRebound =>
       /\ status = "run"
       /\ InEval
       /\ CurIns = I("ldfun_", LastIns.imm)

\* What the code does instead: the assertion stops the interpreter, or,
\* without assertions, the instruction after the guard is the inlined form.
C30_GuardAbortsOrInlines ==
    GuardRebound =>
       \/ status = "bug"
       \/ /\ status = "run"
          /\ TopFrame.pc = LastPc + 1
          /\ TopFrame.ci = last.cs[last.fr].ci

\* `&&` is bound to TRUE and the guard of x && x has stopped the run.
C30_Rebound ==
    /\ GuardRebound
    /\ LastIns.imm = "&&"
    /\ status = "bug"

\* The same guard in a build without assertions: the operand is loaded.
C30_ReboundInlined ==
    /\ GuardRebound
    /\ LastIns.imm = "&&"
    /\ status = "run"
    /\ CurIns.op = "ldvar_"

(***************************************************************************)
(* The fast path of `[[` and `[`.                                          *)
(***************************************************************************)
\* x[[i]] or x[i] with two arguments, the index neither dots, missing nor
\* named.
IsBracket(src) ==
    /\ src.t = "LANGSXP"
    /\ src.fun.t = "SYMSXP"
    /\ src.fun.s \in {"[[", "["}
    /\ Len(src.args) = 2
    /\ ~IsSym(src.args[2].val, "...")
    /\ ~IsSym(src.args[2].val, "")
    /\ src.args[2].tag = ""

LastInBracket ==
    /\ last.fr > 0
    /\ last.fr <= Len(last.cs)
    /\ last.cs[last.fr].k = "eval"
    /\ IsBracket(LastCode.src)

\* brobj_ leaves the stack alone and goes to dispatch_ for an object, to
\* the code of the index otherwise.
BrobjSideExit ==
    (last.op = "brobj_" /\ LastInBracket) =>
        /\ ostack = last.pre
        /\ Len(cstack) = last.fr
        /\ IF last.heap[Peek(last.pre)].obj
           THEN CurIns.op = "dispatch_"
           ELSE TopFrame.pc = LastPc + 1

\* The last step is doDispatch for the call of a bracket.
BracketDispatched ==
    /\ last.op = "doDispatch"
    /\ IsBracket(last.cs[last.fr].call)

\* doDispatch has put the object into the promise of the first argument
\* and has left the promise of the index without a value.
ObjectInstalled ==
    BracketDispatched =>
        LET fr == last.cs[last.fr]
        IN /\ heap[fr.result[1].val].type = "PROMSXP"
           /\ heap[fr.result[1].val].x.value = fr.callee
           /\ heap[fr.result[2].val].type = "PROMSXP"
           /\ heap[fr.result[2].val].x.value = R_UnboundValue

\* extract1_ and subset1_ run on a value without a class attribute.
FastPathOnPlainValue ==
    (last.op \in {"extract1_", "subset1_"} /\ LastInBracket) =>
        ~last.heap[Peek(Pop(last.pre))].obj

\* At the join label (the ret_ that ends the code of a bracket) the stack
\* holds one value more than at the entry of the code.
OneResultAtJoin ==
    (/\ InEval
     /\ IsBracket(CurCode.src)
     /\ TopFrame.pc = Len(CurCode.code)) =>
        Len(ostack) = TopFrame.base + 1

\* The host evaluates the first argument of the call again.
ObjectEvaluatedAgain ==
    /\ BracketDispatched
    /\ \E i \in (last.tr + 1)..Len(trace) :
          trace[i].e = "Rf_eval" /\ trace[i].a = 1

\* C31: in the compiled x[[i]] and x[i], x is evaluated exactly once: for
\* a value with a class attribute brobj_ branches, without popping, to
\* dispatch_, which installs the object as the value of the first argument
\* promise and passes the index unforced; otherwise the index is evaluated
\* and extract1_ / subset1_ runs; both paths reach the join label with
\* exactly one result on the stack.
C31_ObjectEvaluatedOnce ==
    /\ BrobjSideExit
    /\ ObjectInstalled
    /\ FastPathOnPlainValue
    /\ OneResultAtJoin
    /\ ~ObjectEvaluatedAgain

\* The parts of C31 that hold: the side exit, the promise of the object,
\* the fast path and the join.
C31_SideExitAndJoin ==
    /\ BrobjSideExit
    /\ ObjectInstalled
    /\ FastPathOnPlainValue
    /\ OneResultAtJoin

\* The builtin c of c(x)[[1]] has been called by the compiled code and again
\* by the special the dispatch falls back to.
C31_CalledTwice ==
    /\ ObjectEvaluatedAgain
    /\ Cardinality({i \in 1..Len(trace) : trace[i].e = "builtin"}) = 2

(***************************************************************************)
(* The expansion of `...` in an argument list.                             *)
(***************************************************************************)
\* The last step has used a complete argument list: the activation of
\* createArgsList or createArgsListStack that built it.
ListUsed ==
    /\ last.op \in {"doCall_builtin", "rirCallClosure", "doCallStack_builtin",
                    "doCallStack_closure", "doDispatch"}
    /\ last.fr > 0

ListFrame == last.cs[last.fr]

NSlots(fr) == IF fr.k = "createArgsList" THEN Len(fr.args) ELSE fr.nargs

\* what the slot holds in the code (an offset) or on the stack (a value)
SlotOf(fr, i) ==
    IF fr.k = "createArgsList" THEN fr.args[i] ELSE StackAt(last.pre, fr.nargs - i)

SlotIsDots(fr, i) ==
    IF fr.k = "createArgsList" THEN fr.args[i] = DOTS_ARG_IDX
    ELSE SlotOf(fr, i) = R_DotsSymbolAddr

SlotIsMissing(fr, i) ==
    IF fr.k = "createArgsList" THEN fr.args[i] = MISSING_ARG_IDX
    ELSE SlotOf(fr, i) = R_MissingArg

\* The elements of the `...` binding of the environment of the call, none
\* when `...` is not bound to a dots list.
DotsOf(fr) ==
    LET vl == findVarIn(last.heap, "...", fr.env)
    IN IF last.heap[vl].type = "DOTSXP" THEN last.heap[vl].x.list ELSE <<>>

\* The entries the list must have, in order: for a slot that is `...` one
\* entry per element of the binding with the tag of the element, for any
\* other slot one entry with the name of the slot.
RECURSIVE ExpectedFrom(_, _)
ExpectedFrom(fr, i) ==
    IF i > NSlots(fr) THEN <<>>
    ELSE (IF SlotIsDots(fr, i)
          THEN [j \in 1..Len(DotsOf(fr)) |->
                   [slot |-> i, el |-> j, name |-> DotsOf(fr)[j].name]]
          ELSE <<[slot |-> i, el |-> 0,
                  name |-> IF SlotIsMissing(fr, i) THEN "" ELSE fr.names[i]]>>)
         \o ExpectedFrom(fr, i + 1)

\* The value of an element of the dots list: of the promise it is, or the
\* element itself.
ElementValue(p) == IF heap[p].type = "PROMSXP" THEN heap[p].x.value ELSE p

\* The entry of the list is what the expected entry says.
EntryMatches(fr, entry, exp) ==
    /\ entry.name = exp.name
    /\ IF exp.el > 0
       THEN IF fr.eager
            THEN /\ heap[entry.val].type # "PROMSXP"
                 /\ entry.val = ElementValue(DotsOf(fr)[exp.el].val)
            ELSE /\ heap[entry.val].type = "PROMSXP"
                 /\ heap[entry.val].x.fn = 0
                 /\ heap[entry.val].x.ci = DotsOf(fr)[exp.el].val
       ELSE IF SlotIsMissing(fr, exp.slot) THEN entry.val = R_MissingArg
       ELSE IF fr.eager THEN heap[entry.val].type # "PROMSXP"
       ELSE IF fr.k = "createArgsList"
       THEN /\ heap[entry.val].type = "PROMSXP"
            /\ heap[entry.val].x.fn = fr.fn
            /\ heap[entry.val].x.ci = SlotOf(fr, exp.slot)
       ELSE entry.val = escape(heap, SlotOf(fr, exp.slot))

\* C32: where an argument slot is the `...` sentinel the argument list has,
\* in place of the slot, the elements of the current `...` binding in their
\* order, each with its own tag (nothing when `...` is not bound to a dots
\* list), evaluated for a builtin callee and wrapped as promises for a
\* closure callee; the other arguments keep their order around them.
C32_DotsExpanded ==
    ListUsed =>
        /\ Len(ListFrame.result) = Len(ExpectedFrom(ListFrame, 1))
        /\ \A n \in 1..Len(ListFrame.result) :
              EntryMatches(ListFrame, ListFrame.result[n],
                           ExpectedFrom(ListFrame, 1)[n])

\* c(x, ..., TRUE) in m(FALSE, y = x, 1): the builtin gets x, the two
\* elements of the dots list, the first under its tag y, and TRUE.
C32_Witness ==
    /\ last.op = "doCall_builtin"
    /\ ListFrame.eager
    /\ Len(DotsOf(ListFrame)) = 2
    /\ NSlots(ListFrame) = 3
    /\ SlotIsDots(ListFrame, 2)
    /\ Len(ListFrame.result) = 4
    /\ ListFrame.result[2].name = "y"
    /\ ListFrame.result[2].val = vOne
    /\ ListFrame.result[4].val = R_TrueValue

\* d(x, ..., TRUE) in n(FALSE, y = x, 1): the closure gets promises that
\* wrap the elements.
C32_WitnessClosure ==
    /\ last.op = "rirCallClosure"
    /\ ~ListFrame.eager
    /\ Len(DotsOf(ListFrame)) = 2
    /\ NSlots(ListFrame) = 3
    /\ SlotIsDots(ListFrame, 2)
    /\ Len(ListFrame.result) = 4
    /\ ListFrame.result[2].name = "y"
    /\ heap[ListFrame.result[2].val].x.fn = 0

\* `k<-`(x, ..., value = TRUE) and `g<-`(x, ..., value = TRUE): the dots
\* symbol is an argument on the stack.
C32_WitnessStack ==
    /\ last.op \in {"doCallStack_builtin", "doCallStack_closure"}
    /\ NSlots(ListFrame) = 3
    /\ SlotIsDots(ListFrame, 2)
    /\ Len(DotsOf(ListFrame)) >= 1
    /\ Len(ListFrame.result) = 2 + Len(DotsOf(ListFrame))

\* `...` is not bound to a dots list: the slot adds nothing.
C32_WitnessNone ==
    /\ ListUsed
    /\ \E i \in 1..NSlots(ListFrame) : SlotIsDots(ListFrame, i)
    /\ DotsOf(ListFrame) = <<>>
    /\ Len(ListFrame.result) = NSlots(ListFrame) - 1

(***************************************************************************)
(* `next` and `break`: inlined in the code of the loop, ordinary calls     *)
(* elsewhere.                                                              *)
(***************************************************************************)
\* The instructions between beginloop_ at j and the endcontext_ it names.
InLoopAt(code, j, pc) ==
    /\ code[j].op = "beginloop_"
    /\ j < pc
    /\ pc < j + 1 + code[j].imm

LoopsAround(code, pc) == {j \in 1..Len(code) : InLoopAt(code, j, pc)}

\* the innermost loop around pc: the beginloop_ that comes last
InnermostLoop(code, pc) ==
    CHOOSE j \in LoopsAround(code, pc) : \A k \in LoopsAround(code, pc) : k <= j

BranchTarget(code, pc) == pc + 1 + code[pc].imm

\* the guard of an inlined next or break
InlinedExit(code, pc) ==
    code[pc].op = "isspecial_" /\ code[pc].imm \in {"next", "break"}

\* the callee of an ordinary call of next or break
CalledExit(code, pc) ==
    code[pc].op = "ldfun_" /\ code[pc].imm \in {"next", "break"}

\* An inlined next or break is one br_ inside a loop of the same code
\* object, to the head of the innermost loop or to its endcontext_.
InlinedInItsLoop(code) ==
    \A pc \in 1..Len(code) :
        InlinedExit(code, pc) =>
            /\ LoopsAround(code, pc) # {}
            /\ pc < Len(code)
            /\ code[pc + 1].op = "br_"
            /\ BranchTarget(code, pc + 1) =
                  IF code[pc].imm = "next" THEN InnermostLoop(code, pc) + 1
                  ELSE BranchTarget(code, InnermostLoop(code, pc))

\* A next or break that is an ordinary call is in no loop of its code
\* object: it is in the body of a promise or outside any loop.
CalledOutsideLoops(code) ==
    \A pc \in 1..Len(code) : CalledExit(code, pc) => LoopsAround(code, pc) = {}

\* The call of the special next or break has jumped to a loop context of
\* the environment of the call, or found none.
ThroughLoopFrame ==
    (/\ last.op = "call_"
     /\ last.heap[Peek(last.pre)].type = "SPECIALSXP"
     /\ last.heap[Peek(last.pre)].x.name \in {"next", "break"}) =>
        \/ /\ status = "error"
           /\ errmsg = "no loop for break/next, jumping to top level"
        \/ /\ status = "run"
           /\ jmp = (IF last.heap[Peek(last.pre)].x.name = "break"
                     THEN CTXT_BREAK ELSE CTXT_NEXT)
           /\ heap[R_GlobalContext].x.callflag = CTXT_LOOP
           /\ heap[R_GlobalContext].x.cloenv = LastEnv

\* C33: next and break are inlined as a single br_ only directly in the
\* code body in which their loop was inlined; in the body of a promise or
\* outside any loop they are ordinary calls of the specials, whose transfer
\* goes through the LOOP context.
C33_ExitsInlinedInLoopOnly ==
    /\ \A f \in 1..Len(funs) : \A c \in 1..Len(funs[f].codes) :
          /\ InlinedInItsLoop(funs[f].codes[c].code)
          /\ CalledOutsideLoops(funs[f].codes[c].code)
    /\ ThroughLoopFrame

\* repeat (c(break) || break): the break in the promise of the argument of
\* c is called and jumps to the loop context, the code of the loop has the
\* other break as a br_.
C33_Witness ==
    /\ last.op = "call_"
    /\ jmp = CTXT_BREAK
    /\ last.heap[Peek(last.pre)].type = "SPECIALSXP"
    /\ last.heap[Peek(last.pre)].x.name = "break"
    /\ LastCode.src = Call0("break")
    /\ Len(cstack) > 0
    /\ \E pc \in 1..Len(CurCode.code) : InlinedExit(CurCode.code, pc)

\* break outside any loop: the call finds no loop context.
C33_WitnessNoLoop ==
    /\ last.op = "call_"
    /\ status = "error"
    /\ last.heap[Peek(last.pre)].type = "SPECIALSXP"
    /\ last.heap[Peek(last.pre)].x.name = "break"
    /\ status = "error"

(***************************************************************************)
(* The stack at endcontext_ and at the head of a loop.                     *)
(***************************************************************************)
\* endcontext_ has found the store of the innermost context on top.
StoreOnTopAtEnd ==
    last.op = "endcontext_" =>
        /\ last.heap[Peek(last.pre)].type = "RAWSXP"
        /\ Peek(last.pre) = last.ctx

\* Control is at the head of a loop: the instruction after beginloop_.
AtLoopHead ==
    /\ InEval
    /\ TopFrame.pc > 1
    /\ CurCode.code[TopFrame.pc - 1].op = "beginloop_"

\* At the head the stack is as beginloop_ left it: the store of the loop
\* context on top, at the height of the snapshot.
HeadAtSnapshot ==
    AtLoopHead =>
        /\ Peek(ostack) = R_GlobalContext
        /\ Len(ostack) = heap[R_GlobalContext].x.stackPointer

\* C34: in the code of while and repeat endcontext_ always finds the context
\* store of its beginloop_ on top of the stack and the loop head is always
\* reached at the height of the first iteration, also when break or next is
\* the right operand of && / || or the index of [[ / [.
C34_StoreOnTop ==
    /\ StoreOnTopAtEnd
    /\ HeadAtSnapshot

\* The same for the loops whose inlined break and next stand where the
\* stack of the loop body is empty.
C34_StoreOnTopButOperand ==
    /\ StoreOnTopAtEnd \/ status = "bug"
    /\ HeadAtSnapshot \/ \E pc \in 1..Len(CurCode.code) : InlinedExit(CurCode.code, pc)

\* repeat x[[break]]: endcontext_ has found x on top of the store.
C34_IndexBreak ==
    /\ last.op = "endcontext_"
    /\ status = "bug"
    /\ IsBracket(LastCode.src.args[1].val)
    /\ Peek(last.pre) = vOne

(***************************************************************************)
(* The stack guard of rirCallClosure.                                      *)
(***************************************************************************)
\* rirCallTrampoline has returned to rirCallClosure: the body has run to
\* its ret_, or the SETJMP of the trampoline has caught a return.
TrampolineReturned ==
    /\ status = "run"
    /\ jmp = 0
    /\ retval # 0
    /\ Len(cstack) > 0
    /\ TopFrame.k = "rirCallClosure"

\* the stack is as when the body started, the context store on top
GuardHolds(fr, st) ==
    /\ Len(st) = fr.stackguard_size_before
    /\ Peek(st) = fr.stackguard_before
    /\ Peek(st) = fr.store
    /\ Pop(Pop(st)) = fr.entry

\* C35: when rirCallTrampoline returns, normally or after it has caught a
\* non-local return, the stack has the length and the top (the context store
\* of the closure) it had before the body started: the assertion of the
\* stack guard holds, and with the context store and the new environment
\* popped the stack is the one before the call.
C35_StackGuard ==
    /\ TrampolineReturned => GuardHolds(TopFrame, ostack)
    /\ last.op = "rirCallClosure_return" =>
          /\ status = "run"
          /\ GuardHolds(last.cs[last.fr], last.pre)
          /\ Pop(ostack) = last.cs[last.fr].entry

\* The trampoline has caught a return that left values of the body on the
\* stack, and cut them off.
C35_Witness ==
    /\ TrampolineReturned
    /\ last.op = "rirCallTrampoline_SETJMP"
    /\ Len(last.pre) > Len(ostack)
    /\ Len(TopFrame.entry) > 0

\* The body has returned through ret_ and rirCallClosure has popped its
\* two slots.
C35_WitnessNormal ==
    /\ last.op = "rirCallClosure_return"
    /\ last.jmp = 0
    /\ Len(ostack) = Len(last.pre) - 1

(***************************************************************************)
(* Code objects as values: where escape stands between the stack and the   *)
(* host.                                                                   *)
(***************************************************************************)
IsCodeIn(h, a) == a \in 1..Len(h) /\ h[a].type = "CODE"

IsCode(a) == IsCodeIn(heap, a)

\* no variable of any environment is bound to a code object
NoCodeBound ==
    \A e \in 1..Len(heap) :
        heap[e].type = "ENVSXP" => \A s \in Syms : ~IsCode(heap[e].x.frame[s])

\* no argument list holds a code object, neither those under construction
\* nor those a closure was called with
NoCodeInLists ==
    /\ \A i \in 1..Len(cstack) :
          cstack[i].k \in {"createArgsList", "createArgsListStack"} =>
              \A n \in 1..Len(cstack[i].result) : ~IsCode(cstack[i].result[n].val)
    /\ \A i \in EventsOf("closure") :
          \A n \in 1..Len(trace[i].b) : ~IsCode(trace[i].b[n].val)

\* no promise has a code object for its value
NoCodeInPromises ==
    \A p \in 1..Len(heap) : heap[p].type = "PROMSXP" => ~IsCode(heap[p].x.value)

\* the call of a getter or setter has no code object in the place of a
\* placeholder
NoCodeInPlaceholders ==
    \A i \in 1..Len(cstack) :
        cstack[i].k = "createArgsListStack" =>
            \A n \in 1..Len(cstack[i].call.args) :
                cstack[i].call.args[n].val.t = "CONST" =>
                    ~IsCode(cstack[i].call.args[n].val.a)

\* rirEval and rirEval_f do not return a code object
NoCodeReturned ==
    last.op \in {"rirEval", "rirEval_f", "forcePromise"} => ~IsCode(retval)

\* The places the interpreter guards with escape.
C36_GuardedSinksEscaped ==
    /\ NoCodeBound
    /\ NoCodeInLists
    /\ NoCodeInPromises
    /\ NoCodeInPlaceholders
    /\ NoCodeReturned

\* The vector operand the last instruction has handed to the host:
\* extract1_ (when no fast path applies, and none does for a value that is
\* no vector) and subset1_ to do_subset2_dflt / do_subset_dflt, dispatch_
\* to doDispatch.
HostOperand ==
    IF last.op = "dispatch_" THEN Peek(last.pre) ELSE StackAt(last.pre, 1)

NoCodeToHost ==
    last.op \in {"extract1_", "subset1_", "dispatch_"} =>
        ~IsCodeIn(last.heap, HostOperand)

\* C36: a code object pushed by push_code_ never leaves the interpreter as
\* a value: what stvar_ binds, what goes into an argument list, what
\* replaces a placeholder of a getter or setter and what rirEval and
\* rirEval_f return is its source AST.
C36_CodeNeverLeaves ==
    /\ C36_GuardedSinksEscaped
    /\ NoCodeToHost

\* x <- quote(y): stvar_ has bound x to the symbol.
C36_Bound ==
    /\ last.op = "stvar_"
    /\ IsCodeIn(last.heap, Peek(last.pre))
    /\ heap[R_GlobalEnv].x.frame["x"] = last.heap[Peek(last.pre)].x.src
    /\ heap[heap[R_GlobalEnv].x.frame["x"]].type = "SYMSXP"

\* quote(c(x))[[1]]: the code object is handed to do_subset2_dflt.
C36_Leaked ==
    /\ last.op = "extract1_"
    /\ IsCodeIn(last.heap, StackAt(last.pre, 1))

\* the same through dispatch_, when the header of the code object reads as
\* an object
C36_LeakedDispatch ==
    /\ last.op = "dispatch_"
    /\ IsCodeIn(last.heap, Peek(last.pre))

(***************************************************************************)
(* What the instructions that look at the type of a value see of a quoted  *)
(* expression.                                                             *)
(***************************************************************************)
\* The operand the last instruction has inspected: the lower of the two
\* for extract1_, the top of the stack for the others.
Inspected == IF last.op = "extract1_" THEN StackAt(last.pre, 1) ELSE Peek(last.pre)

\* the last instruction has inspected a code object left by quote
InspectedCode(op) ==
    /\ last.op = op
    /\ IsCodeIn(last.heap, Inspected)

\* the value the quoted expression denotes
Denoted == last.heap[Inspected].x.src

\* is_ answers for the type of the denoted value
IsSeesAst ==
    InspectedCode("is_") =>
        Peek(ostack) = (IF isTag(LastIns.imm, TYPEOF(Denoted))
                        THEN R_TrueValue ELSE R_FalseValue)

\* brobj_ branches when the denoted value is an object
BrobjSeesAst ==
    InspectedCode("brobj_") =>
        TopFrame.pc = LastPc + 1 + (IF isObject(Denoted) THEN LastIns.imm ELSE 0)

\* aslogical_ and asbool_ read the denoted value
AslogicalSeesAst ==
    InspectedCode("aslogical_") => Peek(ostack) = ScalarLogical(asLogical(Denoted))

AsboolSeesAst ==
    InspectedCode("asbool_") =>
        IF asbool_cond(Denoted) = NA_LOGICAL THEN status = "error"
        ELSE /\ status = "run"
             /\ Peek(ostack) = ScalarLogical(asbool_cond(Denoted))

\* extract1_ extracts from the denoted value: a call has a first element
Extract1SeesAst ==
    (InspectedCode("extract1_") /\ TYPEOF(Denoted) = "LANGSXP") =>
        errmsg # "object is not subsettable"

\* C37: is_, brobj_, asbool_, aslogical_ and extract1_ see of a quoted
\* expression the value it denotes, its source AST, never the code object
\* that the inlined quote has pushed: is.null(quote(NULL)) is TRUE.
C37_QuotedSeenAsAst ==
    /\ IsSeesAst
    /\ BrobjSeesAst
    /\ AslogicalSeesAst
    /\ AsboolSeesAst
    /\ Extract1SeesAst

\* is.null(quote(NULL)) has answered FALSE.
C37_IsNullOfQuotedNull ==
    /\ InspectedCode("is_")
    /\ LastIns.imm = "NILSXP"
    /\ Denoted = R_NilValue
    /\ Peek(ostack) = R_FalseValue

\* quote(TRUE) && TRUE: aslogical_ has read NA.
C37_QuotedTrueIsNA ==
    /\ InspectedCode("aslogical_")
    /\ Denoted = R_TrueValue
    /\ Peek(ostack) = R_LogicalNAValue

\* while (quote(FALSE)) x: asbool_ has raised an error.
C37_QuotedFalseFails ==
    /\ InspectedCode("asbool_")
    /\ Denoted = R_FalseValue
    /\ status = "error"

(***************************************************************************)
(* The index of the fast path of extract1_.                                *)
(***************************************************************************)
\* extract1_ has taken the fast path.
TookFastPath ==
    /\ last.op = "extract1_"
    /\ trace[Len(trace)] = Event("extract1", 1, 0)

\* the index of the last extract1_ as written: its first element
IndexGiven == last.heap[ExtractIdx].v[1]

\* C38: the fast path of extract1_ reads the element i = index - 1 only
\* when 0 <= i < length: the index 0, a negative index, FALSE and NA fall
\* back to the generic `[[` as an index beyond the length does.
C38_FastPathWithinBounds ==
    TookFastPath =>
        /\ IndexGiven # NA_LOGICAL
        /\ IndexGiven - 1 >= 0
        /\ IndexGiven - 1 < Len(last.heap[ExtractVal].v)

\* What the code has: the fast path is left for an index beyond the length
\* only.
C38_FastPathBelowLength ==
    TookFastPath =>
        \/ IndexGiven = NA_LOGICAL
        \/ IndexGiven - 1 < Len(last.heap[ExtractVal].v)

\* x[[0L]] with x the vector c(2, 0): the fast path has read the element
\* before the first.
C38_IndexZero ==
    /\ TookFastPath
    /\ ExtractVal = vTwoZero
    /\ ExtractIdx = vIntZero
    /\ status = "run"

\* x[[-1L]], x[[FALSE]] and x[[NA]] have taken the fast path.
C38_IndexNegative == TookFastPath /\ ExtractIdx = vIntNeg

C38_IndexFalse == TookFastPath /\ ExtractIdx = R_FalseValue

C38_IndexNA == TookFastPath /\ ExtractIdx = R_LogicalNAValue

\* x[[NA]] has fallen back: the subtraction has wrapped.
C38_IndexNAFallsBack ==
    /\ last.op = "extract1_"
    /\ ExtractIdx = R_LogicalNAValue
    /\ trace[Len(trace)] = Event("extract1", 0, 0)

(***************************************************************************)
(* The key of extract1_ over all pairs of type tags.                       *)
(***************************************************************************)
TypeTags == 0..(2 ^ TypeBits - 1)

\* extract1_ entered with a val and an idx of two type tags.
KeyInit ==
    /\ heap = <<>> /\ funs = <<>> /\ ostack = <<>> /\ cstack = <<>>
    /\ retval = 0 /\ jmp = 0 /\ R_GlobalContext = 0 /\ R_Visible = TRUE
    /\ R_ReturnedValue = 0 /\ status = "run" /\ errmsg = ""
    /\ warnings = <<>> /\ trace = <<>> /\ steps = 0
    /\ \E v \in TypeTags, i \in TypeTags :
          last = [op |-> "operands", vectype |-> v, idxtype |-> i,
                  key |-> {}, cases |-> {}, guarded |-> {}]

\* The switch on the key, and the type test of the guard of the case
\* taken: cases are the cases selected, guarded those of them whose
\* accessors go on to read idx.
extract1_switch ==
    /\ last.op = "operands"
    /\ \E k \in typeKey(last.vectype, last.idxtype) :
          last' = [last EXCEPT !.op = "switch", !.key = k,
                      !.cases = casesOf(k),
                      !.guarded = {c \in casesOf(k) : isType(last.idxtype, c[2])}]
    /\ UNCHANGED <<heap, funs, ostack, cstack, retval, jmp, R_GlobalContext,
                   R_Visible, R_ReturnedValue, status, errmsg, warnings,
                   trace, steps>>

KeyNext == extract1_switch

KeySpec == KeyInit /\ [][KeyNext]_vars

\* C39: a fast-path case of extract1_ reads val and idx with its accessors
\* only when TYPEOF(val) and TYPEOF(idx) are exactly the two types of the
\* case, for every pair of type tags in 0..31: no other pair that passes
\* the guard of the case yields its key.
C39_CaseMatchesTypes ==
    last.op = "switch" =>
        \A c \in last.guarded :
            /\ last.vectype = SEXPTYPE(c[1])
            /\ last.idxtype = SEXPTYPE(c[2])

\* A val of type 7 with a real index has the key of the case of a real
\* vector and an integer index (7 << 19 is 14 << 18): the case is selected,
\* and its guard sends the index of the other type to the fallback.
C39_Witness ==
    /\ last.op = "switch"
    /\ last.vectype = SEXPTYPE("SPECIALSXP")
    /\ last.idxtype = SEXPTYPE("REALSXP")
    /\ last.cases = {<<"REALSXP", "INTSXP">>}
    /\ last.guarded = {}

\* An integer vector with a real index reads with the accessors of its case.
C39_WitnessMatch ==
    /\ last.op = "switch"
    /\ last.vectype = SEXPTYPE("INTSXP")
    /\ last.idxtype = SEXPTYPE("REALSXP")
    /\ last.guarded = {<<"INTSXP", "REALSXP">>}

\* A shift that is undefined has selected no case.
C39_WitnessUndefined ==
    /\ last.op = "switch"
    /\ last.idxtype >= IntBits - 5
    /\ last.vectype > 0
    /\ last.cases = {}
====
